---- MODULE Spec2Model ----
(***************************************************************************)
(* Model of blink-backend (postman-runner): the SSRF validator             *)
(* (internal/validator/ssrf.go), the public execution handler              *)
(* (internal/handlers/execution.go), the route table of cmd/app/main.go    *)
(* and the per-address rate limiter it installs on the execute route.      *)
(*                                                                         *)
(* Strings that the code inspects character by character (URLs, host       *)
(* names) are sequences of one-character strings, so that url.Parse,       *)
(* URL.Hostname, strings.ToLower and strings.HasPrefix are computed.       *)
(* IP addresses are sequences of bytes of length 4 or 16, as net.IP.       *)
(***************************************************************************)
EXTENDS Integers, Sequences, FiniteSets, TLC

(***************************************************************************)
(* Bounds of the model                                                     *)
(***************************************************************************)
\* longest answer (number of addresses) the resolver returns for one name
MaxAnswers == 2
\* largest MAX_REDIRECTS value the configuration is drawn from
MaxRedirectsBound == 3
\* number of inbound calls offered to the router
MaxCalls == 3
\* last clock tick
MaxTime == 2
\* largest RATE_LIMIT_BURST value the configuration is drawn from
MaxBurst == 2
\* clock ticks per refill interval (1 / RATE_LIMIT_RPS)
TicksPerToken == 2
\* the largest response cap, in bytes of the model's bodies
MaxResponseCap == 2
\* largest REQUEST_TIMEOUT value, in clock ticks
MaxTimeout == 2

(***************************************************************************)
(* strings package                                                         *)
(***************************************************************************)
UpperLetters == <<"A","B","C","D","E","F","G","H","I","J","K","L","M",
                  "N","O","P","Q","R","S","T","U","V","W","X","Y","Z">>
LowerLetters == <<"a","b","c","d","e","f","g","h","i","j","k","l","m",
                  "n","o","p","q","r","s","t","u","v","w","x","y","z">>
Digits == <<"0","1","2","3","4","5","6","7","8","9">>

Range(s) == { s[i] : i \in DOMAIN s }

UpperSet == Range(UpperLetters)
LetterSet == Range(UpperLetters) \cup Range(LowerLetters)
DigitSet == Range(Digits)

IsUpper(c) == c \in UpperSet
IsLetter(c) == c \in LetterSet
IsDigit(c) == c \in DigitSet

\* the value of each decimal digit
DigitValues == [c \in DigitSet |-> (CHOOSE i \in DOMAIN Digits : Digits[i] = c) - 1]
DigitVal(c) == DigitValues[c]

\* the lower-case letter of each upper-case letter
LowerOfUpper ==
    [c \in UpperSet |->
        LowerLetters[CHOOSE i \in DOMAIN UpperLetters : UpperLetters[i] = c]]

LowerChar(c) == IF IsUpper(c) THEN LowerOfUpper[c] ELSE c

\* strings.ToLower
ToLower(s) == [i \in DOMAIN s |-> LowerChar(s[i])]

\* strings.HasPrefix
HasPrefix(s, p) == Len(s) >= Len(p) /\ SubSeq(s, 1, Len(p)) = p

\* strings.IndexByte, 1-based; 0 when c does not occur
IndexByte(s, c) ==
    IF \E i \in DOMAIN s : s[i] = c
    THEN CHOOSE i \in DOMAIN s : s[i] = c /\ \A j \in 1..(i-1) : s[j] # c
    ELSE 0

\* strings.LastIndex for a one-byte separator, 1-based; 0 when absent
LastIndexByte(s, c) ==
    IF \E i \in DOMAIN s : s[i] = c
    THEN CHOOSE i \in DOMAIN s : s[i] = c /\ \A j \in (i+1)..Len(s) : s[j] # c
    ELSE 0

\* s[from:] of Go, with a 1-based first index
Tail1(s, from) == SubSeq(s, from, Len(s))

(***************************************************************************)
(* net/url: Parse and URL.Hostname, for URLs without query or fragment     *)
(***************************************************************************)
RECURSIVE schemeScan(_, _)
\* url.getScheme: the index of the ':' ending the scheme, 0 when the URL has
\* no scheme, -1 for "missing protocol scheme"
schemeScan(raw, i) ==
    IF i > Len(raw) THEN 0
    ELSE IF IsLetter(raw[i]) THEN schemeScan(raw, i + 1)
    ELSE IF IsDigit(raw[i]) \/ raw[i] \in {"+", "-", "."}
         THEN IF i = 1 THEN 0 ELSE schemeScan(raw, i + 1)
    ELSE IF raw[i] = ":"
         THEN IF i = 1 THEN -1 ELSE i
    ELSE 0

\* url.validOptionalPort
validOptionalPort(port) ==
    \/ port = <<>>
    \/ /\ port[1] = ":"
       /\ \A i \in 2..Len(port) : IsDigit(port[i])

\* url.parseHost: TRUE when the host part of the authority is accepted
parseHostOk(host) ==
    IF HasPrefix(host, <<"[">>)
    THEN LET i == LastIndexByte(host, "]")
         IN  i # 0 /\ validOptionalPort(Tail1(host, i + 1))
    ELSE LET i == LastIndexByte(host, ":")
         IN  i = 0 \/ validOptionalPort(Tail1(host, i))

\* url.Parse: [ok, Scheme, Host]; Scheme is lower-cased by Parse itself,
\* Host is the authority after the user information, port included
Parse(raw) ==
    LET c == schemeScan(raw, 1) IN
    IF c = -1 THEN [ok |-> FALSE, Scheme |-> <<>>, Host |-> <<>>]
    ELSE
      LET scheme == IF c = 0 THEN <<>> ELSE ToLower(SubSeq(raw, 1, c - 1))
          rest   == IF c = 0 THEN raw ELSE Tail1(raw, c + 1)
      IN
      IF ~HasPrefix(rest, <<"/">>) /\ scheme # <<>>
      THEN \* opaque URL: no authority
           [ok |-> TRUE, Scheme |-> scheme, Host |-> <<>>]
      ELSE IF ~HasPrefix(rest, <<"/">>) /\ scheme = <<>> /\
              (LET seg == IF IndexByte(rest, "/") = 0 THEN rest
                          ELSE SubSeq(rest, 1, IndexByte(rest, "/") - 1)
               IN  IndexByte(seg, ":") # 0)
      THEN \* first path segment in URL cannot contain colon
           [ok |-> FALSE, Scheme |-> <<>>, Host |-> <<>>]
      ELSE IF HasPrefix(rest, <<"/", "/">>) /\
              (scheme # <<>> \/ ~HasPrefix(rest, <<"/", "/", "/">>))
      THEN LET r2   == Tail1(rest, 3)
               sl   == IndexByte(r2, "/")
               auth == IF sl = 0 THEN r2 ELSE SubSeq(r2, 1, sl - 1)
               at   == LastIndexByte(auth, "@")
               host == IF at = 0 THEN auth ELSE Tail1(auth, at + 1)
           IN  IF parseHostOk(host)
               THEN [ok |-> TRUE, Scheme |-> scheme, Host |-> host]
               ELSE [ok |-> FALSE, Scheme |-> <<>>, Host |-> <<>>]
      ELSE [ok |-> TRUE, Scheme |-> scheme, Host |-> <<>>]

\* url.stripPort, which is URL.Hostname: the host without port and without
\* the square brackets of an IPv6 literal
Hostname(host) ==
    LET colon == IndexByte(host, ":")
        close == IndexByte(host, "]")
    IN  IF colon = 0 THEN host
        ELSE IF close # 0
             THEN LET h == SubSeq(host, 1, close - 1)
                  IN  IF HasPrefix(h, <<"[">>) THEN Tail1(h, 2) ELSE h
        ELSE SubSeq(host, 1, colon - 1)

(***************************************************************************)
(* net: IP addresses, ParseIP, IP.To4 and the classification methods       *)
(***************************************************************************)
\* an IPv4 address as net.IP of length 4
V4(a, b, c, d) == <<a, b, c, d>>

\* an IPv6 address as net.IP of length 16, from its eight 16-bit groups
V6(g) == [i \in 1..16 |-> IF i % 2 = 1 THEN g[(i + 1) \div 2] \div 256
                                       ELSE g[i \div 2] % 256]

NoIP == <<>>

RECURSIVE splitDots(_)
\* the dot-separated fields of s
splitDots(s) ==
    LET d == IndexByte(s, ".")
    IN  IF d = 0 THEN <<s>>
        ELSE <<SubSeq(s, 1, d - 1)>> \o splitDots(Tail1(s, d + 1))

RECURSIVE decimal(_, _)
\* the value of the decimal digits f, acc being the value read so far
decimal(f, acc) ==
    IF f = <<>> THEN acc ELSE decimal(Tail(f), 10 * acc + DigitVal(f[1]))

\* an IPv4 field: one to three digits, no leading zero, at most 255
v4FieldOk(f) ==
    /\ Len(f) \in 1..3
    /\ \A i \in DOMAIN f : IsDigit(f[i])
    /\ (Len(f) > 1 => f[1] # "0")
    /\ decimal(f, 0) <= 255

\* the IPv6 literals of the model with the addresses they denote
IPv6Literals ==
    { <<<<":",":","1">>,                          V6(<<0,0,0,0,0,0,0,1>>)>>,
      <<<<":",":">>,                              V6(<<0,0,0,0,0,0,0,0>>)>>,
      <<<<"f","c","0","0",":",":","1">>,          V6(<<64512,0,0,0,0,0,0,1>>)>>,
      <<<<"f","e","8","0",":",":","1">>,          V6(<<65152,0,0,0,0,0,0,1>>)>>,
      <<<<"f","d","0","0",":","e","c","2",":",":","2","5","4">>,
                                                  V6(<<64768,3778,0,0,0,0,0,596>>)>>,
      <<<<"2","0","0","1",":","d","b","8",":",":","1">>,
                                                  V6(<<8193,3512,0,0,0,0,0,1>>)>>,
      <<<<":",":","f","f","f","f",":","1","0",".","0",".","0",".","1">>,
                                                  V6(<<0,0,0,0,0,65535,2560,1>>)>> }

\* net.ParseIP: dotted-decimal IPv4 in full, IPv6 for the literals above;
\* NoIP when s is not an IP literal
ParseIP(s) ==
    LET f == splitDots(s) IN
    IF Len(f) = 4 /\ \A i \in 1..4 : v4FieldOk(f[i])
    THEN V4(decimal(f[1], 0), decimal(f[2], 0), decimal(f[3], 0), decimal(f[4], 0))
    ELSE IF \E p \in IPv6Literals : p[1] = ToLower(s)
    THEN (CHOOSE p \in IPv6Literals : p[1] = ToLower(s))[2]
    ELSE NoIP

\* IP.To4: the 4-byte form of an IPv4 or IPv4-mapped address, NoIP otherwise
To4(ip) ==
    IF Len(ip) = 4 THEN ip
    ELSE IF Len(ip) = 16 /\ (\A i \in 1..10 : ip[i] = 0)
            /\ ip[11] = 255 /\ ip[12] = 255
    THEN SubSeq(ip, 13, 16)
    ELSE NoIP

\* ip.IsLoopback that knows ::1 only
IsLoopbackV6Only(ip) == ip = V6(<<0,0,0,0,0,0,0,1>>)

IsLoopback(ip) ==
    IF To4(ip) # NoIP THEN To4(ip)[1] = 127
    ELSE ip = V6(<<0,0,0,0,0,0,0,1>>)

IsLinkLocalUnicast(ip) ==
    IF To4(ip) # NoIP THEN To4(ip)[1] = 169 /\ To4(ip)[2] = 254
    ELSE Len(ip) = 16 /\ ip[1] = 254 /\ (ip[2] \div 64) = 2

IsLinkLocalMulticast(ip) ==
    IF To4(ip) # NoIP
    THEN To4(ip)[1] = 224 /\ To4(ip)[2] = 0 /\ To4(ip)[3] = 0
    ELSE Len(ip) = 16 /\ ip[1] = 255 /\ (ip[2] % 16) = 2

\* 2^n for n in 0..8
Pow2(n) == CASE n = 0 -> 1 [] n = 1 -> 2 [] n = 2 -> 4 [] n = 3 -> 8
             [] n = 4 -> 16 [] n = 5 -> 32 [] n = 6 -> 64 [] n = 7 -> 128
             [] OTHER -> 256

\* byte b masked with the i-th byte of a prefix mask of the given length
maskByte(b, i, prefix) ==
    LET bits == IF prefix >= 8 * i THEN 8
                ELSE IF prefix <= 8 * (i - 1) THEN 0
                ELSE prefix - 8 * (i - 1)
    IN  (b \div Pow2(8 - bits)) * Pow2(8 - bits)

\* IPNet.Contains for the network n = [ip, prefix]
Contains(n, ip) ==
    LET x == IF To4(ip) # NoIP THEN To4(ip) ELSE ip
    IN  /\ Len(x) = Len(n.ip)
        /\ \A i \in DOMAIN x :
              maskByte(n.ip[i], i, n.prefix) = maskByte(x[i], i, n.prefix)

(***************************************************************************)
(* internal/validator/ssrf.go                                              *)
(***************************************************************************)
\* privateRanges without its first entry
privateRangesNo10 ==
    << [ip |-> V4(172, 16, 0, 0),  prefix |-> 12],
       [ip |-> V4(192, 168, 0, 0), prefix |-> 16],
       [ip |-> V4(169, 254, 0, 0), prefix |-> 16],
       [ip |-> V6(<<64512,0,0,0,0,0,0,0>>), prefix |-> 7],
       [ip |-> V6(<<65152,0,0,0,0,0,0,0>>), prefix |-> 10],
       [ip |-> V6(<<0,0,0,0,0,0,0,1>>),     prefix |-> 128],
       [ip |-> V4(169, 254, 0, 0), prefix |-> 16],
       [ip |-> V4(100, 64, 0, 0),  prefix |-> 10] >>

\* the privateRanges list of isPrivateIP, each entry as net.ParseCIDR reads it
privateRanges ==
    << [ip |-> V4(10, 0, 0, 0),    prefix |-> 8],
       [ip |-> V4(172, 16, 0, 0),  prefix |-> 12],
       [ip |-> V4(192, 168, 0, 0), prefix |-> 16],
       [ip |-> V4(169, 254, 0, 0), prefix |-> 16],
       [ip |-> V6(<<64512,0,0,0,0,0,0,0>>), prefix |-> 7],
       [ip |-> V6(<<65152,0,0,0,0,0,0,0>>), prefix |-> 10],
       [ip |-> V6(<<0,0,0,0,0,0,0,1>>),     prefix |-> 128],
       [ip |-> V4(169, 254, 0, 0), prefix |-> 16],
       [ip |-> V4(100, 64, 0, 0),  prefix |-> 10] >>

\* the metadataIPs list of isPrivateIP; ip.String() of an address equals one
\* of the two texts exactly when the address is one of these two
metadataIPs ==
    << V4(169, 254, 169, 254), V6(<<64768,3778,0,0,0,0,0,596>>) >>

isPrivateIP(ip) ==
    \/ IsLoopback(ip)
    \/ IsLinkLocalUnicast(ip) \/ IsLinkLocalMulticast(ip)
    \/ \E i \in DOMAIN privateRanges : Contains(privateRanges[i], ip)
    \/ \E i \in DOMAIN metadataIPs :
          (IF To4(ip) # NoIP THEN To4(ip) ELSE ip) = metadataIPs[i]

isLocalhost(hostname) ==
    LET h == ToLower(hostname) IN
    \/ h = <<"l","o","c","a","l","h","o","s","t">>
    \/ h = <<"1","2","7",".","0",".","0",".","1">>
    \/ h = <<":",":","1">>
    \/ HasPrefix(h, <<"1","2","7",".">>)
    \/ h = <<"0",".","0",".","0",".","0">>
    \/ h = <<"[",":",":","]">>

\* net.LookupIP: an IP literal is answered without the resolver, any other
\* name with the resolver's answer dns = [err, ips]
LookupIP(hostname, dns) ==
    IF ParseIP(hostname) # NoIP
    THEN [err |-> FALSE, ips |-> <<ParseIP(hostname)>>]
    ELSE dns

\* the loop over the resolved addresses that looks at the first one only
firstPrivateFirstOnly(ips, i) ==
    IF i > Len(ips) THEN 0
    ELSE IF isPrivateIP(ips[i]) THEN i
    ELSE 0

RECURSIVE firstPrivate(_, _)
\* the loop over the resolved addresses: the index of the first private one
\* at or after i, 0 when there is none
firstPrivate(ips, i) ==
    IF i > Len(ips) THEN 0
    ELSE IF isPrivateIP(ips[i]) THEN i
    ELSE firstPrivate(ips, i + 1)

HTTP == <<"h","t","t","p">>
HTTPS == <<"h","t","t","p","s">>

Verdict(kind, steps, ip) == [kind |-> kind, steps |-> steps, ip |-> ip]

\* ValidateExecutionURL with the scheme check placed after the resolution
ValidateExecutionURLLateScheme(urlStr, allowLocalhost, allowPrivateIPs, dns) ==
    LET parsed   == Parse(urlStr)
        scheme   == ToLower(parsed.Scheme)
        hostname == Hostname(parsed.Host)
        looked   == LookupIP(hostname, dns)
        priv     == firstPrivate(looked.ips, 1)
    IN
    IF ~parsed.ok THEN Verdict("InvalidURL", <<"parse">>, NoIP)
    ELSE IF hostname = <<>>
    THEN Verdict("NoHostname", <<"parse", "hostname">>, NoIP)
    ELSE IF isLocalhost(hostname) /\ ~allowLocalhost
    THEN Verdict("BlockedHost", <<"parse", "hostname", "isLocalhost">>, NoIP)
    ELSE IF looked.err
    THEN Verdict("ResolutionFailed",
                 <<"parse", "hostname", "isLocalhost", "lookup">>, NoIP)
    ELSE IF scheme # HTTP /\ scheme # HTTPS
    THEN Verdict("BlockedScheme",
                 <<"parse", "hostname", "isLocalhost", "lookup", "scheme">>, NoIP)
    ELSE IF priv # 0 /\ ~allowPrivateIPs
    THEN Verdict("BlockedIP",
                 <<"parse", "hostname", "isLocalhost", "lookup", "scheme",
                   "isPrivateIP">>, looked.ips[priv])
    ELSE Verdict("Allowed",
                 <<"parse", "hostname", "isLocalhost", "lookup", "scheme",
                   "isPrivateIP">>, NoIP)

\* ValidateExecutionURL treating a failed resolution as an empty answer
ValidateExecutionURLFailOpen(urlStr, allowLocalhost, allowPrivateIPs, dns) ==
    LET parsed   == Parse(urlStr)
        scheme   == ToLower(parsed.Scheme)
        hostname == Hostname(parsed.Host)
        looked   == LookupIP(hostname, dns)
        priv     == firstPrivate(looked.ips, 1)
    IN
    IF ~parsed.ok THEN Verdict("InvalidURL", <<"parse">>, NoIP)
    ELSE IF scheme # HTTP /\ scheme # HTTPS
    THEN Verdict("BlockedScheme", <<"parse", "scheme">>, NoIP)
    ELSE IF hostname = <<>>
    THEN Verdict("NoHostname", <<"parse", "scheme", "hostname">>, NoIP)
    ELSE IF isLocalhost(hostname) /\ ~allowLocalhost
    THEN Verdict("BlockedHost",
                 <<"parse", "scheme", "hostname", "isLocalhost">>, NoIP)
    ELSE IF priv # 0 /\ ~allowPrivateIPs
    THEN Verdict("BlockedIP",
                 <<"parse", "scheme", "hostname", "isLocalhost", "lookup",
                   "isPrivateIP">>, looked.ips[priv])
    ELSE Verdict("Allowed",
                 <<"parse", "scheme", "hostname", "isLocalhost", "lookup",
                   "isPrivateIP">>, NoIP)

\* ValidateExecutionURL: the verdict (kind "Allowed" for a nil error), the
\* steps the call went through, and the offending address of a BlockedIP
ValidateExecutionURL(urlStr, allowLocalhost, allowPrivateIPs, dns) ==
    LET parsed   == Parse(urlStr)
        scheme   == ToLower(parsed.Scheme)
        hostname == Hostname(parsed.Host)
        looked   == LookupIP(hostname, dns)
        priv     == firstPrivate(looked.ips, 1)
    IN
    IF ~parsed.ok THEN Verdict("InvalidURL", <<"parse">>, NoIP)
    ELSE IF scheme # HTTP /\ scheme # HTTPS
    THEN Verdict("BlockedScheme", <<"parse", "scheme">>, NoIP)
    ELSE IF hostname = <<>>
    THEN Verdict("NoHostname", <<"parse", "scheme", "hostname">>, NoIP)
    ELSE IF isLocalhost(hostname) /\ ~allowLocalhost
    THEN Verdict("BlockedHost",
                 <<"parse", "scheme", "hostname", "isLocalhost">>, NoIP)
    ELSE IF looked.err
    THEN Verdict("ResolutionFailed",
                 <<"parse", "scheme", "hostname", "isLocalhost", "lookup">>, NoIP)
    ELSE IF priv # 0 /\ ~allowPrivateIPs
    THEN Verdict("BlockedIP",
                 <<"parse", "scheme", "hostname", "isLocalhost", "lookup",
                   "isPrivateIP">>, looked.ips[priv])
    ELSE Verdict("Allowed",
                 <<"parse", "scheme", "hostname", "isLocalhost", "lookup",
                   "isPrivateIP">>, NoIP)

(***************************************************************************)
(* Inputs of the validator: URLs, policy flags, resolver answers           *)
(***************************************************************************)
SEP == <<":", "/", "/">>
SLASH == <<"/">>
PORT8080 == <<":", "8", "0", "8", "0">>

Schemes ==
    { HTTP, <<"H","T","T","P">>, HTTPS, <<"f","t","p">>,
      <<"f","i","l","e">>, <<"w","s">> }

\* hosts written as names: the resolver decides their addresses
NameHosts ==
    { <<"l","o","c","a","l","h","o","s","t">>,
      <<"L","o","c","a","l","H","o","s","t">>,
      <<"1","2","7",".","e","v","i","l",".","c","o","m">>,
      <<"e","x","a","m","p","l","e",".","c","o","m">>,
      <<"i","n","t","r","a","n","e","t">> }

\* hosts written as IP literals, IPv6 ones in square brackets
LiteralHosts ==
    { <<"1","2","7",".","0",".","0",".","1">>,
      <<"1","2","7",".","0",".","0",".","2">>,
      <<"0",".","0",".","0",".","0">>,
      <<"[",":",":","1","]">>,
      <<"[",":",":","]">>,
      <<"1","0",".","0",".","0",".","1">>,
      <<"1","1",".","0",".","0",".","1">>,
      <<"1","7","2",".","1","6",".","0",".","1">>,
      <<"1","7","2",".","3","1",".","2","5","5",".","2","5","5">>,
      <<"1","7","2",".","3","2",".","0",".","1">>,
      <<"1","9","2",".","1","6","8",".","1",".","1">>,
      <<"1","6","9",".","2","5","4",".","1","6","9",".","2","5","4">>,
      <<"1","6","9",".","2","5","4",".","0",".","1">>,
      <<"1","0","0",".","6","4",".","0",".","1">>,
      <<"8",".","8",".","8",".","8">>,
      <<"[","f","c","0","0",":",":","1","]">>,
      <<"[","f","e","8","0",":",":","1","]">>,
      <<"[","f","d","0","0",":","e","c","2",":",":","2","5","4","]">>,
      <<"[","2","0","0","1",":","d","b","8",":",":","1","]">>,
      <<"[",":",":","f","f","f","f",":","1","0",".","0",".","0",".","1","]">> }

URLsOf(hosts) ==
    { s \o SEP \o h \o SLASH : s \in Schemes, h \in hosts }
    \cup { HTTP \o SEP \o h \o PORT8080 \o SLASH : h \in hosts }

\* URLs outside the scheme://host/ shape
SpecialURLs ==
    { <<":", "/", "/", "x">>,                                 \* no scheme before ':'
      <<"e","x","a","m","p","l","e",".","c","o","m">>,        \* no scheme at all
      HTTP \o SEP,                                            \* empty host
      HTTP \o SEP \o <<"[", ":", ":", "1">>,                  \* missing ']'
      HTTP \o SEP \o <<"x", ":", "8", "a">> \o SLASH,         \* invalid port
      <<"f","i","l","e">> \o SEP \o <<"/","e","t","c">>,      \* file:///etc
      <<"m","a","i","l","t","o",":","x">>,                    \* opaque
      HTTP \o SEP \o <<"a", "@", "1","2","7",".","0",".","0",".","1">> \o SLASH,
      HTTP \o <<":", "/", "x">> }                             \* http:/x

\* addresses the resolver may answer with
DnsIPs ==
    { V4(93, 184, 216, 34), V4(10, 1, 2, 3), V4(127, 0, 0, 1),
      V4(169, 254, 169, 254), V4(192, 168, 0, 10), V4(172, 20, 0, 1),
      V4(100, 100, 0, 1),
      V6(<<0,0,0,0,0,0,0,1>>), V6(<<65152,0,0,0,0,0,0,1>>),
      V6(<<64768,0,0,0,0,0,0,5>>), V6(<<8193,3512,0,0,0,0,0,1>>) }

DnsFailure == [err |-> TRUE, ips |-> <<>>]

\* the answers of the resolver: failure, or 1..MaxAnswers addresses in order
DnsAnswers ==
    {DnsFailure} \cup
    { [err |-> FALSE, ips |-> q] :
        q \in UNION { [1..n -> DnsIPs] : n \in 1..MaxAnswers } }

ValidatorInputs ==
    [url : URLsOf(NameHosts), allowLocalhost : BOOLEAN,
     allowPrivateIPs : BOOLEAN, dns : DnsAnswers]
    \cup
    [url : URLsOf(LiteralHosts) \cup SpecialURLs, allowLocalhost : BOOLEAN,
     allowPrivateIPs : BOOLEAN,
     dns : {DnsFailure, [err |-> FALSE, ips |-> <<V4(93, 184, 216, 34)>>]}]

NoVerdict == [kind |-> "none", steps |-> <<>>, ip |-> NoIP]

(***************************************************************************)
(* Inputs of the public execute endpoint                                   *)
(***************************************************************************)
EXAMPLE == <<"e","x","a","m","p","l","e",".","c","o","m">>
INTRANET == <<"i","n","t","r","a","n","e","t">>

\* a string that url.Parse rejects: the host's bracket is not closed
MALFORMED == HTTP \o SEP \o <<"[", ":", ":", "1">>

\* URLs stored in items, supplied as overrides, or named by a Location header
ExecURLs ==
    { HTTP \o SEP \o EXAMPLE \o SLASH,
      <<"H","T","T","P">> \o SEP \o INTRANET \o SLASH,
      HTTP \o SEP \o <<"1","2","7",".","0",".","0",".","1">> \o SLASH,
      HTTP \o SEP \o <<"1","0",".","0",".","0",".","1">> \o SLASH,
      <<"f","t","p">> \o SEP \o EXAMPLE \o SLASH }

\* the Location headers a target may answer with
RedirectLocations ==
    ExecURLs \cup { HTTP \o SEP \o <<"[", ":", ":", "1">>,
                    HTTP \o SEP \o <<"[","f","d","0","0",":","e","c","2",":",
                                      ":","2","5","4","]">> \o SLASH }

\* what the resolver may answer during one execution
ExecDnsAnswers ==
    { DnsFailure,
      [err |-> FALSE, ips |-> <<V4(93, 184, 216, 34)>>],
      [err |-> FALSE, ips |-> <<V4(10, 1, 2, 3)>>],
      [err |-> FALSE, ips |-> <<V4(93, 184, 216, 34), V4(100, 64, 0, 1)>>] }

\* the resolver's answers to draw from when URL u is validated: the resolver
\* is not asked about an IP literal
DnsChoices(u) ==
    IF ParseIP(Hostname(Parse(u).Host)) # NoIP THEN {DnsFailure}
    ELSE ExecDnsAnswers

\* sql.NullString
Null == [Valid |-> FALSE, String |-> <<>>]
NotNull(str) == [Valid |-> TRUE, String |-> str]

\* the outcome of the SELECT ... FROM collection_items WHERE id = $1
ItemRows ==
    { [err |-> "ErrNoRows"], [err |-> "db"] }
    \cup { [err |-> "nil", ItemType |-> "request", Method |-> NotNull("GET"),
            URL |-> NotNull(u)] : u \in ExecURLs \cup {<<>>} }
    \cup { [err |-> "nil", ItemType |-> "request", Method |-> NotNull("POST"),
            URL |-> Null],
           [err |-> "nil", ItemType |-> "request", Method |-> Null,
            URL |-> NotNull(HTTP \o SEP \o EXAMPLE \o SLASH)],
           [err |-> "nil", ItemType |-> "folder", Method |-> Null,
            URL |-> Null] }

\* the body of the execute call: absent (ContentLength 0), not JSON, or a
\* JSON object whose "url" member is a string (hasURL) or is missing
ExecPayloads ==
    { [present |-> FALSE], [present |-> TRUE, json |-> FALSE] }
    \cup { [present |-> TRUE, json |-> TRUE, hasURL |-> FALSE] }
    \cup { [present |-> TRUE, json |-> TRUE, hasURL |-> TRUE, url |-> u] :
             u \in ExecURLs \cup {<<>>, MALFORMED} }

\* the target's HTTP status codes for a response that is not a redirect
FinalStatuses == {200, 404, 500}

\* URL.String() of the parsed URL raw: the scheme in lower case, the rest as
\* written
URLString(raw) ==
    LET c == schemeScan(raw, 1)
    IN  IF c <= 0 THEN raw
        ELSE ToLower(SubSeq(raw, 1, c - 1)) \o Tail1(raw, c)

VARIABLES
    vIn,      \* validator: the arguments of the call and the resolver's answer
    vOut,     \* validator: the verdict returned, NoVerdict before the call
    cfg,      \* config.Config: AllowLocalhost, AllowPrivateIPs, MaxRedirects
    pc,       \* position of the execute call
    via,      \* URLs of the outbound requests sent so far (via of CheckRedirect)
    location, \* req.URL of the redirect about to be checked
    log,      \* history: validator verdicts and outbound requests, in order
    resp,     \* the answer to the caller: [code, error, cause, status]
    burst,    \* rate limiter: the burst ceiling b, in tokens
    buckets,  \* rate limiter: per address, the level banked at the last refill
    now,      \* the clock, in ticks
    mu,       \* rate limiter: the call holding the lock, 0 when free
    calls,    \* per inbound call: position in the handler chain, address, route
    admitLog, \* history: the rate limiter's decisions, in order
    eIn,      \* descriptor: the side (public, agent) and the call's inputs
    ePc,      \* descriptor: position of the execute call
    desc,     \* the descriptor handed to executeHTTPRequest
    outReq,   \* the request built by http.NewRequest
    eHeader,  \* the header set on the outbound request
    eVia,     \* URLs of the requests sent for the descriptor
    eResp,    \* history: the response received from the target
    eChecked, \* history: the URLs handed to the validator
    ePhases,  \* history: the phases executeHTTPRequest has passed through
    result,   \* the answer to the caller: HTTP code and execute result
    tCfg,     \* deadline: RequestTimeout and MaxRedirects of the configuration
    tPc,      \* deadline: what the execute call is waiting for
    tClock,   \* deadline: ticks since the call was admitted
    tDeadline,\* deadline: the tick at which the client's timer fires, 0 unset
    tVia,     \* deadline: the number of requests sent
    tResult,  \* deadline: the result returned to the caller
    collections, \* store: the ids of the committed rows of collections
    items,    \* store: the committed rows of collection_items
    seq,      \* store: the last value of each table's id sequence
    upload,   \* the UploadCollection call: position, document, transaction
    tree,     \* the items of the last answer of GetCollectionTree
    creates,  \* per CreateItem call: position, request, sort_order computed
    environments, \* store: the variables column of each environments row
    batches   \* per BatchUpdateEnvironmentVariables call: position, request

valVars == <<vIn, vOut>>
execVars == <<cfg, pc, via, location, log, resp>>
rateVars == <<burst, buckets, now, mu, calls, admitLog>>
dlVars == <<tCfg, tPc, tClock, tDeadline, tVia, tResult>>
storeVars == <<collections, items, seq, upload, tree, creates>>
envVars == <<environments, batches>>
engVars == <<eIn, ePc, desc, outReq, eHeader, eVia, eResp, eChecked, ePhases, result>>
vars == <<vIn, vOut, cfg, pc, via, location, log, resp,
          burst, buckets, now, mu, calls, admitLog,
          eIn, ePc, desc, outReq, eHeader, eVia, eResp, eChecked, ePhases, result,
          tCfg, tPc, tClock, tDeadline, tVia, tResult,
          collections, items, seq, upload, tree, creates,
          environments, batches>>

NoResp == [code |-> 0, error |-> "", cause |-> "", status |-> 0]

\* models.ErrorResponse with its HTTP code; cause is the error that the
\* Message field wraps
ErrorResponse(code, error, cause) ==
    [code |-> code, error |-> error, cause |-> cause, status |-> 0]


ValidateEvent(u, dns, v) ==
    [type |-> "validate", url |-> u, dns |-> dns, kind |-> v.kind]
SendEvent(u) ==
    [type |-> "send", url |-> u, dns |-> DnsFailure, kind |-> ""]
LimitEvent(u) ==
    [type |-> "limit", url |-> u, dns |-> DnsFailure, kind |-> ""]

\* the state of a component that a specification leaves out
ValidatorIdle ==
    /\ vIn = [url |-> <<>>, allowLocalhost |-> FALSE,
              allowPrivateIPs |-> FALSE, dns |-> DnsFailure]
    /\ vOut = NoVerdict

ExecIdle ==
    /\ cfg = [AllowLocalhost |-> FALSE, AllowPrivateIPs |-> FALSE,
              MaxRedirects |-> 0]
    /\ pc = "off"
    /\ via = <<>>
    /\ location = <<>>
    /\ log = <<>>
    /\ resp = NoResp

DeadlineIdle ==
    /\ tCfg = [RequestTimeout |-> 0, MaxRedirects |-> 0]
    /\ tPc = "off"
    /\ tClock = 0
    /\ tDeadline = 0
    /\ tVia = 0
    /\ tResult = ""

StoreIdle ==
    /\ collections = {}
    /\ items = {}
    /\ seq = [collections |-> 0, items |-> 0]
    /\ upload = [pc |-> "off"]
    /\ tree = <<>>
    /\ creates = <<>>

EnvIdle ==
    /\ environments = <<>>
    /\ batches = <<>>

(***************************************************************************)
(* internal/config/config.go                                               *)
(***************************************************************************)
\* the environment: the value of each variable, "" when it is not set
EnvNames == {"ALLOW_LOCALHOST", "ALLOW_PRIVATE_IPS"}
NoEnv == [k \in EnvNames |-> ""]

getEnv(env, key, defaultValue) ==
    IF env[key] # "" THEN env[key] ELSE defaultValue

\* the SSRF flags of the configuration that Load builds from env
Load(env) ==
    [AllowLocalhost  |-> getEnv(env, "ALLOW_LOCALHOST", "true") = "true",
     AllowPrivateIPs |-> getEnv(env, "ALLOW_PRIVATE_IPS", "true") = "true"]

(***************************************************************************)
(* internal/handlers/execution.go                                          *)
(***************************************************************************)
\* the effective URL: the override if the payload has one, else the stored
urlStrOf(row, payload) ==
    IF payload.present /\ payload.hasURL THEN payload.url
    ELSE IF row.URL.Valid THEN row.URL.String
    ELSE <<>>

\* ExecuteRequest up to the dispatch of the first outbound request
ExecuteRequest(idOk, row, payload, dns) ==
    /\ pc = "idle"
    /\ UNCHANGED <<cfg, location>>
    /\ IF ~idOk
       THEN /\ resp' = ErrorResponse(400, "invalid_id", "")
            /\ pc' = "done" /\ UNCHANGED <<via, log>>
       ELSE IF row.err = "ErrNoRows"
       THEN /\ resp' = ErrorResponse(404, "not_found", "")
            /\ pc' = "done" /\ UNCHANGED <<via, log>>
       ELSE IF row.err # "nil"
       THEN /\ resp' = ErrorResponse(500, "database_error", "")
            /\ pc' = "done" /\ UNCHANGED <<via, log>>
       ELSE IF row.ItemType # "request"
       THEN /\ resp' = ErrorResponse(400, "invalid_item_type", "")
            /\ pc' = "done" /\ UNCHANGED <<via, log>>
       ELSE IF payload.present /\ ~payload.json
       THEN /\ resp' = ErrorResponse(400, "invalid_request", "invalid body")
            /\ pc' = "done" /\ UNCHANGED <<via, log>>
       ELSE IF ~row.Method.Valid
       THEN /\ resp' = ErrorResponse(400, "invalid_request", "missing method")
            /\ pc' = "done" /\ UNCHANGED <<via, log>>
       ELSE IF urlStrOf(row, payload) = <<>>
       THEN /\ resp' = ErrorResponse(400, "invalid_request", "missing URL")
            /\ pc' = "done" /\ UNCHANGED <<via, log>>
       ELSE LET urlStr == urlStrOf(row, payload)
                v == ValidateExecutionURL(urlStr, cfg.AllowLocalhost,
                                          cfg.AllowPrivateIPs, dns)
            IN  /\ dns \in DnsChoices(urlStr)
                /\ IF v.kind # "Allowed"
                   THEN /\ resp' = ErrorResponse(403, "ssrf_protection", v.kind)
                        /\ log' = Append(log, ValidateEvent(urlStr, dns, v))
                        /\ pc' = "done" /\ UNCHANGED via
                   ELSE \* executeHTTPRequest: client.Do sends hop 0
                        /\ log' = log \o <<ValidateEvent(urlStr, dns, v),
                                           SendEvent(urlStr)>>
                        /\ via' = <<urlStr>>
                        /\ pc' = "sending"
                        /\ resp' = resp

\* the target answers the request in flight with a response that the client
\* does not follow: executeHTTPRequest returns it, the handler answers 200
TargetResponds(status) ==
    /\ pc = "sending"
    /\ resp' = [code |-> 200, error |-> "", cause |-> "", status |-> status]
    /\ pc' = "done"
    /\ UNCHANGED <<cfg, via, location, log>>

\* TargetFails with the handler answering 200 for the failed execution
TargetFailsAs200 ==
    /\ pc = "sending"
    /\ resp' = [code |-> 200, error |-> "execution_error",
                cause |-> "request failed", status |-> 0]
    /\ pc' = "done"
    /\ UNCHANGED <<cfg, via, location, log>>

\* the request in flight fails (connect error, timeout): client.Do returns
\* an error, the handler answers 502
TargetFails ==
    /\ pc = "sending"
    /\ resp' = ErrorResponse(502, "execution_error", "request failed")
    /\ pc' = "done"
    /\ UNCHANGED <<cfg, via, location, log>>

\* the target answers the request in flight with a redirect to loc; the
\* client builds the next request and is about to call CheckRedirect
TargetRedirects(loc) ==
    /\ pc = "sending"
    /\ IF Parse(loc).ok
       THEN /\ location' = URLString(loc)
            /\ pc' = "redirect"
            /\ resp' = resp
       ELSE \* failed to parse Location header
            /\ resp' = ErrorResponse(502, "execution_error",
                                    "failed to parse Location header")
            /\ pc' = "done"
            /\ UNCHANGED location
    /\ UNCHANGED <<cfg, via, log>>

\* CheckRedirect as in the agent: the hop limit only, no validation
CheckRedirectUnvalidated(dns) ==
    /\ pc = "redirect"
    /\ UNCHANGED <<cfg, location>>
    /\ IF Len(via) >= cfg.MaxRedirects
       THEN /\ resp' = ErrorResponse(502, "execution_error",
                                    "stopped after redirects")
            /\ log' = Append(log, LimitEvent(location))
            /\ pc' = "done" /\ UNCHANGED via
       ELSE /\ dns \in DnsChoices(location)
            /\ log' = Append(log, SendEvent(location))
            /\ via' = Append(via, location)
            /\ pc' = "sending"
            /\ resp' = resp

\* CheckRedirect validating the target with both allow flags set instead of
\* the flags of the configuration
CheckRedirectPermissive(dns) ==
    /\ pc = "redirect"
    /\ UNCHANGED <<cfg, location>>
    /\ IF Len(via) >= cfg.MaxRedirects
       THEN /\ resp' = ErrorResponse(502, "execution_error",
                                    "stopped after redirects")
            /\ log' = Append(log, LimitEvent(location))
            /\ pc' = "done" /\ UNCHANGED via
       ELSE LET v == ValidateExecutionURL(location, TRUE, TRUE, dns)
            IN  /\ dns \in DnsChoices(location)
                /\ log' = log \o <<ValidateEvent(location, dns, v)>>
                            \o (IF v.kind = "Allowed"
                                THEN <<SendEvent(location)>> ELSE <<>>)
                /\ IF v.kind # "Allowed"
                   THEN /\ resp' = ErrorResponse(502, "execution_error",
                                                "redirect blocked")
                        /\ pc' = "done" /\ UNCHANGED via
                   ELSE /\ via' = Append(via, location)
                        /\ pc' = "sending"
                        /\ resp' = resp

\* CheckRedirect running the validator before the hop-count check
CheckRedirectValidateFirst(dns) ==
    /\ pc = "redirect"
    /\ UNCHANGED <<cfg, location>>
    /\ LET v == ValidateExecutionURL(location, cfg.AllowLocalhost,
                                     cfg.AllowPrivateIPs, dns)
       IN  /\ dns \in DnsChoices(location)
           /\ IF v.kind # "Allowed"
              THEN /\ resp' = ErrorResponse(502, "execution_error",
                                           "redirect blocked")
                   /\ log' = Append(log, ValidateEvent(location, dns, v))
                   /\ pc' = "done" /\ UNCHANGED via
              ELSE IF Len(via) >= cfg.MaxRedirects
              THEN /\ resp' = ErrorResponse(502, "execution_error",
                                           "stopped after redirects")
                   /\ log' = log \o <<ValidateEvent(location, dns, v),
                                      LimitEvent(location)>>
                   /\ pc' = "done" /\ UNCHANGED via
              ELSE /\ log' = log \o <<ValidateEvent(location, dns, v),
                                      SendEvent(location)>>
                   /\ via' = Append(via, location)
                   /\ pc' = "sending"
                   /\ resp' = resp

\* the CheckRedirect function of executeHTTPRequest, followed by the
\* client's dispatch of the redirected request when it returns nil
CheckRedirect(dns) ==
    /\ pc = "redirect"
    /\ UNCHANGED <<cfg, location>>
    /\ IF Len(via) >= cfg.MaxRedirects
       THEN \* stopped after MaxRedirects redirects
            /\ resp' = ErrorResponse(502, "execution_error",
                                    "stopped after redirects")
            /\ log' = Append(log, LimitEvent(location))
            /\ pc' = "done" /\ UNCHANGED via
       ELSE LET v == ValidateExecutionURL(location, cfg.AllowLocalhost,
                                          cfg.AllowPrivateIPs, dns)
            IN  /\ dns \in DnsChoices(location)
                /\ log' = log \o <<ValidateEvent(location, dns, v)>>
                            \o (IF v.kind = "Allowed"
                                THEN <<SendEvent(location)>> ELSE <<>>)
                /\ IF v.kind # "Allowed"
                   THEN \* redirect blocked
                        /\ resp' = ErrorResponse(502, "execution_error",
                                                "redirect blocked")
                        /\ pc' = "done" /\ UNCHANGED via
                   ELSE /\ via' = Append(via, location)
                        /\ pc' = "sending"
                        /\ resp' = resp

(***************************************************************************)
(* cmd/app/main.go: the route table, and the per-address rate limiter that *)
(* RateLimitMiddleware(limiter) puts in front of the execute route         *)
(***************************************************************************)
\* the route table with the rate limiter also on the item lookup route
RoutesLookupLimited ==
    [ep \in { "GET /health", "GET /downloads",
              "POST /api/v1/collections/upload", "GET /api/v1/collections",
              "GET /api/v1/collections/:id/tree",
              "POST /api/v1/collections/:id/items", "GET /api/v1/items/:id",
              "PUT /api/v1/items/:id", "DELETE /api/v1/items/:id",
              "POST /api/v1/items/:id/execute",
              "POST /api/v1/environments", "GET /api/v1/environments",
              "GET /api/v1/environments/:id", "PUT /api/v1/environments/:id",
              "PATCH /api/v1/environments/:id/variables",
              "DELETE /api/v1/environments/:id" } |->
        IF ep \in {"POST /api/v1/items/:id/execute", "GET /api/v1/items/:id"}
        THEN <<"RateLimitMiddleware", "Handler">>
        ELSE <<"Handler">>]

\* the handler chain of every route registered in main
Routes ==
    [ep \in { "GET /health", "GET /downloads",
              "POST /api/v1/collections/upload", "GET /api/v1/collections",
              "GET /api/v1/collections/:id/tree",
              "POST /api/v1/collections/:id/items", "GET /api/v1/items/:id",
              "PUT /api/v1/items/:id", "DELETE /api/v1/items/:id",
              "POST /api/v1/items/:id/execute",
              "POST /api/v1/environments", "GET /api/v1/environments",
              "GET /api/v1/environments/:id", "PUT /api/v1/environments/:id",
              "PATCH /api/v1/environments/:id/variables",
              "DELETE /api/v1/environments/:id" } |->
        IF ep = "POST /api/v1/items/:id/execute"
        THEN <<"RateLimitMiddleware", "Handler">>
        ELSE <<"Handler">>]

EXECUTE == "POST /api/v1/items/:id/execute"

\* the routes the calls of the model ask for: execute, health and the item
\* lookup
RequestedRoutes == { EXECUTE, "GET /health", "GET /api/v1/items/:id" }

\* client addresses
Addrs == {"a1", "a2"}

\* the inbound calls of the model
CallIds == 1..MaxCalls

\* one token, in the unit of the bucket level: the level rises by one unit
\* per clock tick, a refill interval (1/r) is TicksPerToken ticks
Token == TicksPerToken

NoBucket == [exists |-> FALSE, level |-> 0, last |-> 0]
NewCall ==
    [st |-> "new", addr |-> "", ep |-> "", seen |-> 0, at |-> 0, code |-> 0]

\* the level of bucket bk at time t: the banked level plus the time elapsed
\* since the last refill, capped at the burst ceiling
Refilled(bk, t, b) ==
    IF bk.level + (t - bk.last) > b * Token THEN b * Token
    ELSE bk.level + (t - bk.last)

\* a call arrives for route ep from address a: gin runs the route's chain,
\* which starts with the rate limiter or is the handler alone
Arrive(c, a, ep) ==
    /\ calls[c].st = "new"
    /\ calls' = [calls EXCEPT ![c] =
                   IF Routes[ep][1] = "RateLimitMiddleware"
                   THEN [NewCall EXCEPT !.st = "waiting", !.addr = a, !.ep = ep]
                   ELSE [NewCall EXCEPT !.st = "handled", !.addr = a, !.ep = ep,
                                        !.code = 200]]
    /\ UNCHANGED <<burst, buckets, now, mu, admitLog>>

\* AcquireLock that does not wait for the lock to be free
AcquireLockUnguarded(c) ==
    /\ calls[c].st = "waiting"
    /\ mu' = c
    /\ calls' = [calls EXCEPT ![c].st = "locked"]
    /\ UNCHANGED <<burst, buckets, now, admitLog>>

\* the limiter's lock is taken by call c
AcquireLock(c) ==
    /\ calls[c].st = "waiting"
    /\ mu = 0
    /\ mu' = c
    /\ calls' = [calls EXCEPT ![c].st = "locked"]
    /\ UNCHANGED <<burst, buckets, now, admitLog>>

\* under the lock: the bucket of the call's address is created full on first
\* sight, and its level at the current time is read
ReadBucket(c) ==
    /\ calls[c].st = "locked"
    /\ LET a  == calls[c].addr
           bk == IF buckets[a].exists THEN buckets[a]
                 ELSE [exists |-> TRUE, level |-> burst * Token, last |-> now]
       IN  /\ buckets' = [buckets EXCEPT ![a] = bk]
           /\ calls' = [calls EXCEPT ![c].st = "read",
                                     ![c].seen = Refilled(bk, now, burst),
                                     ![c].at = now]
    /\ UNCHANGED <<burst, now, mu, admitLog>>

\* WriteBucket admitting without consuming the token
WriteBucketNoConsume(c) ==
    /\ calls[c].st = "read"
    /\ LET a  == calls[c].addr
           ok == calls[c].seen >= Token
       IN  /\ buckets' = [buckets EXCEPT ![a].level = calls[c].seen,
                                         ![a].last = calls[c].at]
           /\ calls' = [calls EXCEPT ![c].st =
                           IF ok THEN "admitted" ELSE "rejected"]
           /\ admitLog' = Append(admitLog,
                                 [addr |-> a, t |-> calls[c].at, ok |-> ok])
    /\ UNCHANGED <<burst, now, mu>>

\* under the lock: a token is consumed if one is available, and the call is
\* admitted; otherwise it is rejected at once
WriteBucket(c) ==
    /\ calls[c].st = "read"
    /\ LET a  == calls[c].addr
           ok == calls[c].seen >= Token
       IN  /\ buckets' = [buckets EXCEPT
                            ![a].level = IF ok THEN calls[c].seen - Token
                                         ELSE calls[c].seen,
                            ![a].last = calls[c].at]
           /\ calls' = [calls EXCEPT ![c].st =
                           IF ok THEN "admitted" ELSE "rejected"]
           /\ admitLog' = Append(admitLog,
                                 [addr |-> a, t |-> calls[c].at, ok |-> ok])
    /\ UNCHANGED <<burst, now, mu>>

\* the lock is released; an admitted call goes on to the next handler of
\* the chain, a rejected call is answered 429 and the chain is aborted
ReleaseLock(c) ==
    /\ calls[c].st \in {"admitted", "rejected"}
    /\ mu' = 0
    /\ calls' = [calls EXCEPT
                   ![c].st = IF calls[c].st = "admitted"
                             THEN "handled" ELSE "aborted",
                   ![c].code = IF calls[c].st = "admitted" THEN 200 ELSE 429,
                   ![c].seen = 0, ![c].at = 0]
    /\ UNCHANGED <<burst, buckets, now, admitLog>>

\* the clock advances by one tick
Tick ==
    /\ now < MaxTime
    /\ now' = now + 1
    /\ UNCHANGED <<burst, buckets, mu, calls, admitLog>>

(***************************************************************************)
(* The request descriptor, the outbound request and the result, in the     *)
(* public service (internal/handlers/execution.go) and in the local agent  *)
(* (agent/executor.go, agent/types.go)                                     *)
(***************************************************************************)
\* the upper-case letter of each lower-case letter
UpperOfLower ==
    [c \in Range(LowerLetters) |->
        UpperLetters[CHOOSE i \in DOMAIN LowerLetters : LowerLetters[i] = c]]

UpperChar(c) == IF c \in DOMAIN UpperOfLower THEN UpperOfLower[c] ELSE c

\* strings.ToUpper
ToUpper(s) == [i \in DOMAIN s |-> UpperChar(s[i])]

GET == <<"G","E","T">>
POST == <<"P","O","S","T">>
PUT == <<"P","U","T">>
PATCH == <<"P","A","T","C","H">>
DELETE == <<"D","E","L","E","T","E">>
OPTIONS == <<"O","P","T","I","O","N","S">>

\* the methods a collection_items row may hold: CHECK (method IN (...))
allowedMethods == {GET, POST, PUT, PATCH, DELETE}

\* a nil pointer and a pointer to v
Nil == [nil |-> TRUE]
Ptr(v) == [nil |-> FALSE, val |-> v]

\* JSON values of the execute payload
Missing == [kind |-> "missing"]
JString(v) == [kind |-> "string", val |-> v]
JNumber == [kind |-> "number"]
JObject(f) == [kind |-> "object", val |-> f]

\* the overrides read from the payload: a member counts when it is a JSON
\* string; of a headers object only the string members are kept, and an
\* object with none of them leaves Headers nil
execReqOf(payload) ==
    IF ~payload.present
    THEN [URL |-> Nil, Headers |-> Nil, Body |-> Nil]
    ELSE [URL  |-> IF payload.url.kind = "string"
                   THEN Ptr(payload.url.val) ELSE Nil,
          Body |-> IF payload.body.kind = "string"
                   THEN Ptr(payload.body.val) ELSE Nil,
          Headers |->
             IF payload.headers.kind = "object"
             THEN LET headersVal == payload.headers.val
                      headers ==
                        [k \in {n \in DOMAIN headersVal :
                                  headersVal[n].kind = "string"} |->
                           headersVal[k].val]
                  IN  IF DOMAIN headers # {} THEN Ptr(headers) ELSE Nil
             ELSE Nil]

\* urlStr of ExecuteRequest falling back to a fixed URL when the item has none
urlStrForPlaceholder(item, execReq) ==
    IF ~execReq.URL.nil THEN execReq.URL.val
    ELSE IF item.URL.Valid THEN item.URL.String
    ELSE HTTP \o SEP \o EXAMPLE \o SLASH

\* urlStr of ExecuteRequest
urlStrFor(item, execReq) ==
    IF ~execReq.URL.nil THEN execReq.URL.val
    ELSE IF item.URL.Valid THEN item.URL.String
    ELSE <<>>

\* headers of ExecuteRequest: the stored text is a JSON array of
\* PostmanHeader, a later entry overwriting an earlier one of the same key
headersFor(item, execReq) ==
    IF ~execReq.Headers.nil THEN execReq.Headers.val
    ELSE IF item.Headers.Valid /\ item.Headers.String # <<>>
    THEN LET postmanHeaders == item.Headers.String
         IN  [k \in {postmanHeaders[i].Key : i \in DOMAIN postmanHeaders} |->
                postmanHeaders[CHOOSE i \in DOMAIN postmanHeaders :
                    /\ postmanHeaders[i].Key = k
                    /\ \A j \in DOMAIN postmanHeaders :
                          postmanHeaders[j].Key = k => j <= i].Value]
    ELSE <<>>

\* body of ExecuteRequest
bodyFor(item, execReq) ==
    IF ~execReq.Body.nil THEN execReq.Body.val
    ELSE IF item.Body.Valid THEN item.Body.String
    ELSE <<>>

\* net/http validMethod: a non-empty token
validMethod(method) ==
    /\ method # <<>>
    /\ \A i \in DOMAIN method : IsLetter(method[i]) \/ IsDigit(method[i])

\* http.NewRequest: an empty method means GET; the method must be a token
\* and the URL must parse
NewRequest(method, urlStr, body) ==
    LET m == IF method = <<>> THEN GET ELSE method
    IN  [err    |-> ~validMethod(m) \/ ~Parse(urlStr).ok,
         Method |-> m,
         URL    |-> urlStr,
         Body   |-> body]

\* bodyReader of the public executeHTTPRequest that attaches the body for
\* every method
bodyReaderAnyMethod(method, bodyStr) ==
    IF bodyStr # <<>> THEN Ptr(bodyStr) ELSE Nil

\* bodyReader of the public executeHTTPRequest
bodyReader(method, bodyStr) ==
    LET methodUpper == ToUpper(method)
        supportsBody == methodUpper \in {POST, PUT, PATCH, DELETE}
    IN  IF bodyStr # <<>> /\ supportsBody THEN Ptr(bodyStr) ELSE Nil

\* bodyReader of the agent's executeHTTPRequest
agentBodyReader(method, bodyStr) ==
    LET methodUpper == ToUpper(method)
        supportsBody == methodUpper \in {POST, PUT, PATCH, DELETE}
    IN  IF bodyStr # <<>> /\ supportsBody THEN Ptr(bodyStr) ELSE Nil

\* io.ReadAll(io.LimitReader(body, n)) that reads one byte less
ReadAllLimitedShort(body, n) ==
    SubSeq(body, 1, IF Len(body) < n THEN Len(body) ELSE n - 1)

\* io.ReadAll(io.LimitReader(body, n))
ReadAllLimited(body, n) ==
    SubSeq(body, 1, IF Len(body) < n THEN Len(body) ELSE n)

\* responseHeaders of the public executeHTTPRequest: map[string]string
responseHeaders(header) ==
    [key \in {k \in DOMAIN header : Len(header[k]) > 0} |-> header[key][1]]

\* responseHeaders of the agent's executeHTTPRequest: map[string][]string
agentResponseHeaders(header) ==
    [key \in DOMAIN header |-> header[key]]

\* MaxRedirects of the agent
MaxRedirects == 5

\* MaxResponseSize of the agent, in the unit of the model's bodies
AgentMaxResponseSize == MaxResponseCap

(***************************************************************************)
(* Inputs of the descriptor, the outbound request and the result           *)
(***************************************************************************)
LOCAL8080 ==
    HTTP \o SEP \o <<"1","2","7",".","0",".","0",".","1">> \o PORT8080
         \o SLASH
METADATA ==
    HTTP \o SEP \o <<"1","6","9",".","2","5","4",".","1","6","9",".",
                     "2","5","4">> \o SLASH

\* the headers column of a request item: the array of PostmanHeader that
\* the stored JSON text denotes
StoredHeaders ==
    { Null, NotNull(<<>>),
      NotNull(<<[Key |-> "Authorization", Value |-> "stored"],
                [Key |-> "Accept", Value |-> "text/plain"]>>) }

\* the request items of the store that the descriptor is assembled from
EngineRows ==
    { [err |-> "nil", ItemType |-> "request", Method |-> NotNull(m),
       URL |-> NotNull(HTTP \o SEP \o EXAMPLE \o SLASH),
       Headers |-> h, Body |-> b] :
        m \in {GET, POST}, h \in StoredHeaders,
        b \in {Null, NotNull(<<>>), NotNull(<<"s">>)} }
    \cup
    { [err |-> e, ItemType |-> "", Method |-> Null, URL |-> Null,
       Headers |-> Null, Body |-> Null] : e \in {"ErrNoRows", "db"} }
    \cup
    { [err |-> "nil", ItemType |-> "folder", Method |-> Null, URL |-> Null,
       Headers |-> Null, Body |-> Null],
      [err |-> "nil", ItemType |-> "request", Method |-> Null,
       URL |-> NotNull(HTTP \o SEP \o EXAMPLE \o SLASH),
       Headers |-> Null, Body |-> Null],
      [err |-> "nil", ItemType |-> "request", Method |-> NotNull(GET),
       URL |-> Null, Headers |-> Null, Body |-> Null],
      [err |-> "nil", ItemType |-> "request", Method |-> NotNull(POST),
       URL |-> NotNull(<<>>), Headers |-> NotNull(<<>>),
       Body |-> NotNull(<<>>)] }

\* the headers member of an execute payload
PayloadHeaders ==
    { Missing, JObject(<<>>),
      JObject([k \in {"Accept"} |-> JString("application/json")]),
      JObject([k \in {"Accept", "X-Retries"} |->
                 IF k = "Accept" THEN JString("application/json")
                 ELSE JNumber]) }

\* the bodies of the execute call of the public service
EnginePayloads ==
    { [present |-> FALSE], [present |-> TRUE, json |-> FALSE] }
    \cup { [present |-> TRUE, json |-> TRUE, url |-> u, headers |-> h,
            body |-> b] :
             u \in {Missing, JString(LOCAL8080),
                    JString(<<"H","T","T","P">> \o SEP \o INTRANET \o SLASH)},
             h \in PayloadHeaders,
             b \in {Missing, JString(<<>>), JString(<<"o">>)} }

\* the bodies of the execute call of the agent
AgentPayloads ==
    { [json |-> FALSE] }
    \cup { [json |-> TRUE, Method |-> m, URL |-> u, Headers |-> h,
            Body |-> b] :
             m \in {GET, POST, <<"p","o","s","t">>, OPTIONS, <<>>},
             u \in {LOCAL8080, HTTP \o SEP \o EXAMPLE \o SLASH, <<>>,
                    MALFORMED},
             h \in {<<>>, [k \in {"Accept"} |-> "application/json"]},
             b \in {<<>>, <<"o">>} }

\* the Location headers the agent's target may answer with
AgentRedirectLocations == {LOCAL8080, METADATA}

\* the bodies a target answers with: the bytes 1, 2, ... up to one more
\* than the largest response cap
TargetBodies == { [i \in 1..n |-> i] : n \in 0..(MaxResponseCap + 1) }

\* the header of a target's response
TargetHeaders ==
    { [k \in {"Set-Cookie"} |-> <<"a=1", "b=2">>],
      [k \in {"Content-Type"} |-> <<"text/plain">>] }

\* the responses of a target that the client does not follow
TargetResponses ==
    [status : FinalStatuses, header : TargetHeaders, body : TargetBodies]

\* the errors of client.Do and of reading the response
DoErrors == {"request failed", "failed to read response"}

NoDesc == [method |-> <<>>, url |-> <<>>, headers |-> <<>>, body |-> <<>>]
NoRequest == [err |-> TRUE, Method |-> <<>>, URL |-> <<>>, Body |-> Nil]
NoResponse == [status |-> 0, header |-> <<>>, body |-> <<>>]
NoResult ==
    [code |-> 0, kind |-> "", error |-> "", Status |-> 0, Headers |-> <<>>,
     Body |-> <<>>]

\* the answer of the public service for a failed call: models.ErrorResponse
PublicError(code, kind, cause) ==
    [NoResult EXCEPT !.code = code, !.kind = kind, !.error = cause]

\* the answer of the agent for a failed execution: ExecuteResponse{Error}
AgentError(code, cause) ==
    [NoResult EXCEPT !.code = code, !.error = cause]

EngineIdle ==
    /\ eIn = [side |-> "off"]
    /\ ePc = "off"
    /\ desc = NoDesc
    /\ outReq = NoRequest
    /\ eHeader = <<>>
    /\ eVia = <<>>
    /\ eResp = NoResponse
    /\ eChecked = <<>>
    /\ ePhases = <<>>
    /\ result = NoResult

(***************************************************************************)
(* internal/handlers/execution.go, with the descriptor in full             *)
(***************************************************************************)
\* ExecuteRequest, from the parse of the id and the lookup of the item to
\* the dispatch of the outbound request; eIn.row is the outcome of the SELECT
ExecuteRequestDescriptor(dns) ==
    /\ eIn.side = "public"
    /\ ePc = "idle"
    /\ LET item    == eIn.row
           payload == eIn.payload
           execReq == execReqOf(payload)
           urlStr  == urlStrFor(item, execReq)
       IN
       IF ~eIn.idOk
       THEN /\ result' = PublicError(400, "invalid_id", "")
            /\ ePc' = "done"
            /\ UNCHANGED <<desc, outReq, eHeader, eVia, eChecked, ePhases>>
       ELSE IF item.err = "ErrNoRows"
       THEN /\ result' = PublicError(404, "not_found", "")
            /\ ePc' = "done"
            /\ UNCHANGED <<desc, outReq, eHeader, eVia, eChecked, ePhases>>
       ELSE IF item.err # "nil"
       THEN /\ result' = PublicError(500, "database_error", "")
            /\ ePc' = "done"
            /\ UNCHANGED <<desc, outReq, eHeader, eVia, eChecked, ePhases>>
       ELSE IF item.ItemType # "request"
       THEN /\ result' = PublicError(400, "invalid_item_type", "")
            /\ ePc' = "done"
            /\ UNCHANGED <<desc, outReq, eHeader, eVia, eChecked, ePhases>>
       ELSE IF payload.present /\ ~payload.json
       THEN /\ result' = PublicError(400, "invalid_request", "invalid body")
            /\ ePc' = "done"
            /\ UNCHANGED <<desc, outReq, eHeader, eVia, eChecked, ePhases>>
       ELSE IF ~item.Method.Valid
       THEN /\ result' = PublicError(400, "invalid_request", "missing method")
            /\ ePc' = "done"
            /\ UNCHANGED <<desc, outReq, eHeader, eVia, eChecked, ePhases>>
       ELSE IF urlStr = <<>>
       THEN /\ result' = PublicError(400, "invalid_request", "missing URL")
            /\ ePc' = "done"
            /\ UNCHANGED <<desc, outReq, eHeader, eVia, eChecked, ePhases>>
       ELSE LET v == ValidateExecutionURL(urlStr, cfg.AllowLocalhost,
                                          cfg.AllowPrivateIPs, dns)
                d == [method  |-> item.Method.String,
                      url     |-> urlStr,
                      headers |-> headersFor(item, execReq),
                      body    |-> bodyFor(item, execReq)]
                req == NewRequest(d.method, d.url,
                                  bodyReader(d.method, d.body))
            IN  /\ dns \in DnsChoices(urlStr)
                /\ eChecked' = <<urlStr>>
                /\ IF v.kind # "Allowed"
                   THEN /\ result' = PublicError(403, "ssrf_protection", v.kind)
                        /\ ePc' = "done"
                        /\ UNCHANGED <<desc, outReq, eHeader, eVia, ePhases>>
                   ELSE \* executeHTTPRequest up to client.Do
                        /\ desc' = d
                        /\ IF req.err
                           THEN /\ result' = PublicError(502, "execution_error",
                                                 "failed to create request")
                                /\ ePc' = "done"
                                /\ ePhases' = <<"Building", "Failed">>
                                /\ UNCHANGED <<outReq, eHeader, eVia>>
                           ELSE /\ outReq' = req
                                /\ eHeader' = d.headers
                                /\ eVia' = <<d.url>>
                                /\ ePc' = "sending"
                                /\ ePhases' = <<"Building", "Sending">>
                                /\ result' = result
    /\ UNCHANGED <<eIn, eResp>>

\* executeHTTPRequest of the public service from the response on: the body
\* is read up to the cap, of each header the first value is kept
ReadResponse(r) ==
    /\ eIn.side = "public"
    /\ ePc = "sending"
    /\ result' = [code    |-> 200, kind |-> "", error |-> "",
                  Status  |-> r.status,
                  Headers |-> responseHeaders(r.header),
                  Body    |-> ReadAllLimited(r.body, eIn.cap)]
    /\ ePc' = "done"
    /\ eResp' = r
    /\ ePhases' = ePhases \o <<"Receiving", "Complete">>
    /\ UNCHANGED <<eIn, desc, outReq, eHeader, eVia, eChecked>>

\* client.Do (connect error, timeout, a refused or surplus redirect) or the
\* read of the response fails: the handler answers 502
DoFails(cause) ==
    /\ eIn.side = "public"
    /\ ePc = "sending"
    /\ result' = PublicError(502, "execution_error", cause)
    /\ ePc' = "done"
    /\ ePhases' = ePhases \o (IF cause = "failed to read response"
                              THEN <<"Receiving", "Failed">>
                              ELSE <<"Failed">>)
    /\ UNCHANGED <<eIn, desc, outReq, eHeader, eVia, eResp, eChecked>>

(***************************************************************************)
(* agent/executor.go                                                       *)
(***************************************************************************)
\* executeHandler: the payload is bound (method and url are required), and
\* executeHTTPRequest builds and dispatches the outbound request
executeHandler ==
    /\ eIn.side = "agent"
    /\ ePc = "idle"
    /\ LET p == eIn.payload IN
       IF ~p.json
       THEN /\ result' = AgentError(400, "Invalid request")
            /\ ePc' = "done"
            /\ UNCHANGED <<desc, outReq, eHeader, eVia, eChecked, ePhases>>
       ELSE IF p.Method = <<>> \/ p.URL = <<>>
       THEN /\ result' = AgentError(400, "Invalid request")
            /\ ePc' = "done"
            /\ UNCHANGED <<desc, outReq, eHeader, eVia, eChecked, ePhases>>
       ELSE LET req == NewRequest(p.Method, p.URL,
                                  agentBodyReader(p.Method, p.Body))
            IN  /\ desc' = [method |-> p.Method, url |-> p.URL,
                            headers |-> p.Headers, body |-> p.Body]
                /\ IF req.err
                   THEN /\ result' = AgentError(200, "failed to create request")
                        /\ ePc' = "done"
                        /\ ePhases' = <<"Building", "Failed">>
                        /\ UNCHANGED <<outReq, eHeader, eVia>>
                   ELSE /\ outReq' = req
                        /\ eHeader' = p.Headers
                        /\ eVia' = <<p.URL>>
                        /\ ePc' = "sending"
                        /\ ePhases' = <<"Building", "Sending">>
                        /\ result' = result
    /\ UNCHANGED <<eIn, eResp, eChecked>>

\* the agent's CheckRedirect validating the target as the public service
agentCheckRedirectValidated(loc) ==
    /\ eIn.side = "agent"
    /\ ePc = "sending"
    /\ IF Len(eVia) >= MaxRedirects
       THEN /\ result' = AgentError(200, "stopped after redirects")
            /\ ePhases' = ePhases \o <<"Redirect", "Failed">>
            /\ ePc' = "done" /\ UNCHANGED eVia
       ELSE IF ValidateExecutionURL(loc, FALSE, FALSE, DnsFailure).kind
                 # "Allowed"
       THEN /\ result' = AgentError(200, "redirect blocked")
            /\ ePhases' = ePhases \o <<"Redirect", "Failed">>
            /\ ePc' = "done" /\ UNCHANGED eVia
       ELSE /\ eVia' = Append(eVia, URLString(loc))
            /\ ePhases' = ePhases \o <<"Redirect", "Sending">>
            /\ UNCHANGED <<ePc, result>>
    /\ UNCHANGED <<eIn, desc, outReq, eHeader, eResp, eChecked>>

\* the target answers with a redirect to loc: the agent's CheckRedirect
\* stops at the hop limit and otherwise lets the client follow
agentCheckRedirect(loc) ==
    /\ eIn.side = "agent"
    /\ ePc = "sending"
    /\ IF Len(eVia) >= MaxRedirects
       THEN /\ result' = AgentError(200, "stopped after redirects")
            /\ ePhases' = ePhases \o <<"Redirect", "Failed">>
            /\ ePc' = "done" /\ UNCHANGED eVia
       ELSE /\ eVia' = Append(eVia, URLString(loc))
            /\ ePhases' = ePhases \o <<"Redirect", "Sending">>
            /\ UNCHANGED <<ePc, result>>
    /\ UNCHANGED <<eIn, desc, outReq, eHeader, eResp, eChecked>>

\* agentReadResponse answering with the error of a 4xx or 5xx status
agentReadResponseStatusError(r) ==
    /\ eIn.side = "agent"
    /\ ePc = "sending"
    /\ result' = IF r.status >= 400 THEN AgentError(200, "bad status")
                 ELSE [code    |-> 200, kind |-> "", error |-> "",
                       Status  |-> r.status,
                       Headers |-> agentResponseHeaders(r.header),
                       Body    |-> ReadAllLimited(r.body, eIn.cap)]
    /\ ePc' = "done"
    /\ eResp' = r
    /\ ePhases' = ePhases \o <<"Receiving", "Complete">>
    /\ UNCHANGED <<eIn, desc, outReq, eHeader, eVia, eChecked>>

\* the agent's executeHTTPRequest from the response on: the body is read up
\* to the cap, the header is copied with all its values
agentReadResponse(r) ==
    /\ eIn.side = "agent"
    /\ ePc = "sending"
    /\ result' = [code    |-> 200, kind |-> "", error |-> "",
                  Status  |-> r.status,
                  Headers |-> agentResponseHeaders(r.header),
                  Body    |-> ReadAllLimited(r.body, eIn.cap)]
    /\ ePc' = "done"
    /\ eResp' = r
    /\ ePhases' = ePhases \o <<"Receiving", "Complete">>
    /\ UNCHANGED <<eIn, desc, outReq, eHeader, eVia, eChecked>>

\* agentDoFails that sends the failed request a second time before giving up
agentDoFailsRetry(cause) ==
    /\ eIn.side = "agent"
    /\ ePc = "sending"
    /\ IF cause = "request failed" /\ ePhases[Len(ePhases) - 1] # "Sending"
       THEN /\ ePhases' = ePhases \o <<"Sending">>
            /\ UNCHANGED <<ePc, result>>
       ELSE /\ result' = AgentError(200, cause)
            /\ ePc' = "done"
            /\ ePhases' = ePhases \o (IF cause = "failed to read response"
                                      THEN <<"Receiving", "Failed">>
                                      ELSE <<"Failed">>)
    /\ UNCHANGED <<eIn, desc, outReq, eHeader, eVia, eResp, eChecked>>

\* client.Do or the read of the response fails in the agent: executeHandler
\* answers 200 with the error and no status
agentDoFails(cause) ==
    /\ eIn.side = "agent"
    /\ ePc = "sending"
    /\ result' = AgentError(200, cause)
    /\ ePc' = "done"
    /\ ePhases' = ePhases \o (IF cause = "failed to read response"
                              THEN <<"Receiving", "Failed">>
                              ELSE <<"Failed">>)
    /\ UNCHANGED <<eIn, desc, outReq, eHeader, eVia, eResp, eChecked>>

(***************************************************************************)
(* internal/handlers/execution.go and internal/validator/ssrf.go: what the *)
(* execute call waits for, and the deadline of http.Client.Timeout         *)
(***************************************************************************)
\* the tick up to which the clock of the call is followed
LastTick == MaxTimeout + 2

\* ExecuteRequest reaches validator.ValidateExecutionURL for the initial
\* URL, which calls net.LookupIP and waits for the resolver
ExecuteRequestLookup ==
    /\ tPc = "idle"
    /\ tPc' = "lookup"
    /\ UNCHANGED <<tCfg, tClock, tDeadline, tVia, tResult>>

\* net.LookupIP returns to the validator. For the initial URL the handler
\* answers 403 or calls executeHTTPRequest, whose client.Do sets the timer
\* to now + Timeout and sends hop 0. In CheckRedirect the client sends the
\* next hop unless the redirect is refused or the timer has fired meanwhile
LookupReturns(allowed) ==
    /\ tPc = "lookup"
    /\ IF tVia = 0
       THEN IF allowed
            THEN /\ tDeadline' = tClock + tCfg.RequestTimeout
                 /\ tVia' = 1
                 /\ tPc' = "roundtrip"
                 /\ UNCHANGED tResult
            ELSE /\ tResult' = "ssrf_protection"
                 /\ tPc' = "done"
                 /\ UNCHANGED <<tDeadline, tVia>>
       ELSE IF ~allowed
            THEN /\ tResult' = "redirect blocked"
                 /\ tPc' = "done"
                 /\ UNCHANGED <<tDeadline, tVia>>
            ELSE IF tClock >= tDeadline
            THEN /\ tResult' = "Client.Timeout exceeded"
                 /\ tPc' = "done"
                 /\ UNCHANGED <<tDeadline, tVia>>
            ELSE /\ tVia' = tVia + 1
                 /\ tPc' = "roundtrip"
                 /\ UNCHANGED <<tDeadline, tResult>>
    /\ UNCHANGED <<tCfg, tClock>>

\* the target answers the request in flight: with a response whose body is
\* then read, with a redirect that CheckRedirect refuses at the hop limit and
\* otherwise hands to the validator, or with a failure of the connection
TargetAnswers(kind) ==
    /\ tPc = "roundtrip"
    /\ CASE kind = "response" ->
              /\ tPc' = "read"
              /\ UNCHANGED tResult
         [] kind = "redirect" ->
              IF tVia >= tCfg.MaxRedirects
              THEN /\ tResult' = "stopped after redirects"
                   /\ tPc' = "done"
              ELSE /\ tPc' = "lookup"
                   /\ UNCHANGED tResult
         [] OTHER ->
              /\ tResult' = "request failed"
              /\ tPc' = "done"
    /\ UNCHANGED <<tCfg, tClock, tDeadline, tVia>>

\* io.ReadAll of the response body returns
BodyRead(ok) ==
    /\ tPc = "read"
    /\ tResult' = IF ok THEN "Complete" ELSE "failed to read response"
    /\ tPc' = "done"
    /\ UNCHANGED <<tCfg, tClock, tDeadline, tVia>>

\* the timer of http.Client.Timeout fires: it cancels the request in flight
\* and the read of the body
TimerFires ==
    /\ tDeadline # 0
    /\ tClock >= tDeadline
    /\ tPc \in {"roundtrip", "read"}
    /\ tResult' = "Client.Timeout exceeded"
    /\ tPc' = "done"
    /\ UNCHANGED <<tCfg, tClock, tDeadline, tVia>>

\* time passes while the call waits; the clock runs to LastTick and in any
\* case until the timer, once set, has fired
ClockTick ==
    /\ tPc \in {"lookup", "roundtrip", "read"}
    /\ tClock < LastTick \/ tClock < tDeadline
    /\ tClock' = tClock + 1
    /\ UNCHANGED <<tCfg, tPc, tDeadline, tVia, tResult>>

(***************************************************************************)
(* internal/validator (ValidatePostmanCollection) and                      *)
(* internal/handlers/collection.go: the upload of a Postman collection     *)
(***************************************************************************)
\* cfg.MaxRequestSize and cfg.MaxHeaderCount, in the units of the model
MaxRequestSize == 3
MaxHeaderCount == 1

\* strings.Contains(urlStr, "{{") && strings.Contains(urlStr, "}}")
hasTemplate(urlStr) ==
    /\ \E i \in 1..(Len(urlStr) - 1) : urlStr[i] = "{" /\ urlStr[i + 1] = "{"
    /\ \E i \in 1..(Len(urlStr) - 1) : urlStr[i] = "}" /\ urlStr[i + 1] = "}"

\* extractURL: the string, or the "raw" member of the object, else ""
extractURL(urlData) ==
    IF urlData.kind = "string" THEN urlData.val
    ELSE IF urlData.kind = "object" /\ "raw" \in DOMAIN urlData.val
            /\ urlData.val["raw"].kind = "string"
    THEN urlData.val["raw"].val
    ELSE <<>>

\* validateRequest with validateURL: "" when the request is accepted
validateRequest(req, maxHeaderCount) ==
    LET urlStr == extractURL(req.URL)
    IN  IF ToUpper(req.Method) \notin allowedMethods
        THEN "unsupported HTTP method"
        ELSE IF /\ urlStr # <<>>
                /\ ~hasTemplate(urlStr)
                /\ ~Parse(urlStr).ok
        THEN "invalid URL format"
        ELSE IF /\ urlStr # <<>>
                /\ ~hasTemplate(urlStr)
                /\ ToLower(Parse(urlStr).Scheme) \notin {HTTP, HTTPS}
        THEN "unsupported URL scheme"
        ELSE IF Len(req.Header) > maxHeaderCount
        THEN "too many headers"
        ELSE ""

RECURSIVE validateItems(_, _)
\* validateItems: the first error in document order, "" when there is none
validateItems(its, maxHeaderCount) ==
    IF its = <<>> THEN ""
    ELSE LET item == Head(its)
             err  == IF Len(item.Item) > 0
                     THEN validateItems(item.Item, maxHeaderCount)
                     ELSE IF ~item.Request.nil
                     THEN validateRequest(item.Request.val, maxHeaderCount)
                     ELSE ""
         IN  IF err # "" THEN err
             ELSE validateItems(Tail(its), maxHeaderCount)

\* io.ReadAll(io.LimitReader(c.Request.Body, n)): the first n bytes; the JSON
\* value of the body is whole in them when it ends within them
LimitedBody(body, n) ==
    [body EXCEPT !.len = IF body.len < n THEN body.len ELSE n]

\* ValidatePostmanCollection: "" when the collection is accepted
ValidatePostmanCollection(data, maxRequestSize, maxHeaderCount) ==
    IF data.len > maxRequestSize THEN "collection JSON exceeds maximum size"
    ELSE IF ~data.json \/ data.jsonLen > data.len THEN "invalid JSON format"
    ELSE IF ~data.schema THEN "unsupported Postman schema version"
    ELSE IF Len(data.Item) = 0
    THEN "collection must contain at least one item"
    ELSE validateItems(data.Item, maxHeaderCount)

\* what tx.Rollback leaves of the rows the transaction has inserted, when
\* the rows are not discarded
afterRollbackKept(txRows) == txRows

\* what tx.Rollback leaves of the rows the transaction has inserted
afterRollback(txRows) == {}

RECURSIVE unwind(_)
\* the call stack of importItems with the calls whose loop has ended returned
unwind(stack) ==
    IF stack = <<>> THEN <<>>
    ELSE LET f == stack[Len(stack)]
         IN  IF f.next > Len(f.items)
             THEN unwind(SubSeq(stack, 1, Len(stack) - 1))
             ELSE stack

NoUpload == [pc |-> "idle"]

\* UploadCollection up to the INSERT INTO collections of the transaction
UploadCollection(body, dbOk) ==
    /\ upload = NoUpload
    /\ LET data == LimitedBody(body, MaxRequestSize)
           err  == ValidatePostmanCollection(data, MaxRequestSize,
                                             MaxHeaderCount)
       IN  IF err # ""
           THEN /\ upload' = [pc |-> "done", body |-> body, code |-> 400,
                              error |-> "validation_error", id |-> 0,
                              rows |-> {}, stack |-> <<>>]
                /\ UNCHANGED seq
           ELSE IF ~dbOk
           THEN /\ upload' = [pc |-> "done", body |-> body, code |-> 500,
                              error |-> "database_error", id |-> 0,
                              rows |-> {}, stack |-> <<>>]
                /\ UNCHANGED seq
           ELSE /\ seq' = [seq EXCEPT !.collections = @ + 1]
                /\ upload' = [pc |-> "import", body |-> body, code |-> 0,
                              error |-> "", id |-> seq.collections + 1,
                              rows |-> {},
                              stack |-> <<[items |-> data.Item, next |-> 1,
                                           parent |-> 0]>>]
    /\ UNCHANGED <<collections, items, tree, creates>>

\* one turn of the loop of importItems, in the innermost call: a folder is
\* inserted and its items are imported next, a request is inserted, any
\* other item is passed over; an INSERT that fails ends the call, and the
\* deferred tx.Rollback undoes the transaction
importItems(dbOk) ==
    /\ upload.pc = "import"
    /\ upload.stack # <<>>
    /\ LET n         == Len(upload.stack)
           f         == upload.stack[n]
           item      == f.items[f.next]
           sortOrder == f.next - 1
           id        == seq.items + 1
           advanced  == [upload.stack EXCEPT ![n].next = @ + 1]
           folder    == Len(item.Item) > 0
           row ==
             IF folder
             THEN [id |-> id, collection_id |-> upload.id,
                   parent_id |-> f.parent, name |-> item.Name,
                   item_type |-> "folder", sort_order |-> sortOrder,
                   method |-> Null, url |-> Null]
             ELSE [id |-> id, collection_id |-> upload.id,
                   parent_id |-> f.parent, name |-> item.Name,
                   item_type |-> "request", sort_order |-> sortOrder,
                   method |-> NotNull(item.Request.val.Method),
                   url |-> NotNull(extractURL(item.Request.val.URL))]
           checkOk == folder \/ row.method.String \in allowedMethods
       IN  IF ~folder /\ item.Request.nil
           THEN /\ upload' = [upload EXCEPT !.stack = unwind(advanced)]
                /\ UNCHANGED <<seq, items>>
           ELSE IF ~dbOk \/ ~checkOk
           THEN /\ upload' = [upload EXCEPT !.pc = "done", !.code = 500,
                                            !.error = "import_error",
                                            !.rows = {}, !.stack = <<>>]
                /\ items' = items \cup afterRollback(upload.rows)
                /\ UNCHANGED seq
           ELSE /\ seq' = [seq EXCEPT !.items = id]
                /\ upload' =
                     [upload EXCEPT
                        !.rows = @ \cup {row},
                        !.stack =
                          unwind(IF folder
                                 THEN Append(advanced,
                                             [items |-> item.Item, next |-> 1,
                                              parent |-> id])
                                 ELSE advanced)]
                /\ UNCHANGED items
    /\ UNCHANGED <<collections, tree, creates>>

\* importItems has returned nil: tx.Commit, and the answer 201
Commit(dbOk) ==
    /\ upload.pc = "import"
    /\ upload.stack = <<>>
    /\ IF dbOk
       THEN /\ collections' = collections \cup {upload.id}
            /\ items' = items \cup upload.rows
            /\ upload' = [upload EXCEPT !.pc = "done", !.code = 201]
       ELSE /\ upload' = [upload EXCEPT !.pc = "done", !.code = 500,
                                        !.error = "database_error",
                                        !.rows = {}]
            /\ items' = items \cup afterRollback(upload.rows)
            /\ UNCHANGED collections
    /\ UNCHANGED <<seq, tree, creates>>

(***************************************************************************)
(* internal/handlers/tree.go                                               *)
(***************************************************************************)
RECURSIVE pathOf(_, _)
\* the path column of item_tree: the sort_order of the row's ancestors, from
\* the root down, and its own
pathOf(rows, r) ==
    IF r.parent_id = 0 THEN <<r.sort_order>>
    ELSE Append(pathOf(rows, CHOOSE p \in rows : p.id = r.parent_id),
                r.sort_order)

RECURSIVE pathLess(_, _)
\* the order of integer arrays in ORDER BY path
pathLess(a, b) ==
    IF a = <<>> THEN b # <<>>
    ELSE IF b = <<>> THEN FALSE
    ELSE IF Head(a) # Head(b) THEN Head(a) < Head(b)
    ELSE pathLess(Tail(a), Tail(b))

RECURSIVE ordered(_, _)
\* the rows S in an order ORDER BY path allows; rows of equal path come in
\* the order the database happens to choose
ordered(rows, S) ==
    IF S = {} THEN <<>>
    ELSE LET m == CHOOSE x \in S :
                    \A y \in S : ~pathLess(pathOf(rows, y), pathOf(rows, x))
         IN  <<m>> \o ordered(rows, S \ {m})

\* the rows of the recursive query of GetCollectionTree: the items of the
\* collection that hang, directly or not, from a root item
itemTree(collectionID) ==
    LET mine == { r \in items : r.collection_id = collectionID }
    IN  ordered(mine, mine)

RECURSIVE buildNode(_, _)
\* buildNode of buildTree: the node of flat[k] with, as children, the nodes
\* of the rows naming it as parent, in the order of flat
buildNode(flat, k) ==
    LET childIDs == SelectSeq([j \in DOMAIN flat |-> j],
                              LAMBDA j : flat[j].parent_id = flat[k].id)
    IN  [Name     |-> flat[k].name,
         ItemType |-> flat[k].item_type,
         Children |-> [c \in DOMAIN childIDs |-> buildNode(flat, childIDs[c])]]

\* buildTree: the nodes of the rows without parent, in the order of flat
buildTree(flat) ==
    LET rootIDs == SelectSeq([j \in DOMAIN flat |-> j],
                             LAMBDA j : flat[j].parent_id = 0)
    IN  [c \in DOMAIN rootIDs |-> buildNode(flat, rootIDs[c])]

NoTree == [id |-> 0, code |-> 0, Items |-> <<>>]

\* GetCollectionTree for a collection id
GetCollectionTree(collectionID) ==
    /\ tree' = IF collectionID \notin collections
               THEN [id |-> collectionID, code |-> 404, Items |-> <<>>]
               ELSE [id |-> collectionID, code |-> 200,
                     Items |-> buildTree(itemTree(collectionID))]
    /\ UNCHANGED <<collections, items, seq, upload, creates>>

(***************************************************************************)
(* The collections uploaded                                                *)
(***************************************************************************)
\* a PostmanItem with a request; member says whether the JSON object has an
\* "item" member (which is then the empty array)
RequestItem(name, method, url, nHeaders) ==
    [Name |-> name, member |-> FALSE, Item |-> <<>>,
     Request |-> Ptr([Method |-> method, URL |-> url,
                      Header |-> [i \in 1..nHeaders |->
                                    [Key |-> "X-H", Value |-> "v"]]])]

\* a PostmanItem with an "item" member and no request
FolderItem(name, its) ==
    [Name |-> name, member |-> TRUE, Item |-> its, Request |-> Nil]

EXAMPLEURL == JString(HTTP \o SEP \o EXAMPLE \o SLASH)

Ping == RequestItem("Ping", GET, EXAMPLEURL, 0)
Post ==
    RequestItem("Post", POST,
                JObject([k \in {"raw"} |->
                           JString(<<"{","{","b","a","s","e","}","}">>)]), 1)

\* the item arrays of the uploads
UploadItems ==
    { <<FolderItem("Api", <<FolderItem("Users", <<Ping>>), Post>>), Ping>>,
      <<Post, FolderItem("A", <<Ping, Post>>), FolderItem("B", <<Post, Ping>>)>>,
      <<FolderItem("Deep", <<FolderItem("Deeper", <<FolderItem("Deepest",
                                                               <<Post>>)>>)>>)>>,
      <<Ping>>,
      <<Ping, FolderItem("Empty", <<>>), Post>>,
      <<[Name |-> "Note", member |-> FALSE, Item |-> <<>>, Request |-> Nil],
        Ping>>,
      <<Ping, RequestItem("Trace", <<"T","R","A","C","E">>, EXAMPLEURL, 0)>>,
      <<Ping, RequestItem("Lower", <<"g","e","t">>, EXAMPLEURL, 0)>>,
      <<FolderItem("Files",
                   <<RequestItem("Ftp", GET,
                       JString(<<"f","t","p">> \o SEP \o EXAMPLE \o SLASH),
                       0)>>)>>,
      <<Ping, RequestItem("Heavy", GET, Missing, MaxHeaderCount + 1)>>,
      <<>> }

\* the bodies of the upload call: len bytes, of which the first jsonLen are
\* the JSON value and the rest white space
UploadBodies ==
    { [len |-> 1, jsonLen |-> 1, json |-> FALSE, schema |-> FALSE,
       Item |-> <<>>] }
    \cup
    { [len |-> MaxRequestSize, jsonLen |-> MaxRequestSize, json |-> TRUE,
       schema |-> s, Item |-> its] :
         s \in BOOLEAN, its \in UploadItems }
    \cup
    { [len |-> MaxRequestSize + 1, jsonLen |-> n, json |-> TRUE,
       schema |-> TRUE, Item |-> <<Ping>>] :
         n \in {MaxRequestSize, MaxRequestSize + 1} }

(***************************************************************************)
(* The item handler: CreateItem                                            *)
(***************************************************************************)
\* the largest number of CreateItem calls in progress together
MaxCreates == 2

\* the rows of a collection under a parent (0: parent_id IS NULL)
Siblings(rows, collectionID, parentID) ==
    { r \in rows : r.collection_id = collectionID /\ r.parent_id = parentID }

\* SELECT MAX(sort_order) over the siblings, NULL when there is none
maxSortOrder(rows, collectionID, parentID) ==
    LET S == { r.sort_order : r \in Siblings(rows, collectionID, parentID) }
    IN  IF S = {} THEN [Valid |-> FALSE, Int64 |-> 0]
        ELSE [Valid |-> TRUE, Int64 |-> CHOOSE m \in S : \A x \in S : x <= m]

\* sortOrder of CreateItem: 0, or one more than the largest stored
sortOrderFor(max) == IF max.Valid THEN max.Int64 + 1 ELSE 0

\* the parent_id column of a *int
parentColumn(ParentID) == IF ParentID.nil THEN 0 ELSE ParentID.val

NoCreate == [pc |-> "idle"]

\* a CreateItem call that has answered
Created(collectionID, createReq, code, error) ==
    [pc |-> "done", collectionID |-> collectionID, createReq |-> createReq,
     code |-> code, error |-> error, before |-> {}, sortOrder |-> 0,
     row |-> Nil]

\* CreateItem of call k up to the computation of sortOrder: the checks of
\* the collection, the body and the parent, and the SELECT MAX(sort_order);
\* before holds the siblings stored when the call read them
CreateItem(k, collectionID, createReq, dbOk) ==
    /\ creates[k] = NoCreate
    /\ LET parentID == parentColumn(createReq.ParentID)
           parents  == { r \in items : r.id = parentID }
           answer(code, error) ==
               creates' = [creates EXCEPT
                             ![k] = Created(collectionID, createReq, code,
                                            error)]
       IN  IF ~dbOk THEN answer(500, "database_error")
           ELSE IF collectionID \notin collections
           THEN answer(404, "not_found")
           ELSE IF createReq.ItemType \notin {"folder", "request"}
           THEN answer(400, "invalid_item_type")
           ELSE IF createReq.ItemType = "request" /\ createReq.Method = <<>>
           THEN answer(400, "missing_method")
           ELSE IF /\ createReq.ItemType = "request"
                   /\ createReq.Method \notin allowedMethods
           THEN answer(400, "invalid_method")
           ELSE IF /\ ~createReq.ParentID.nil
                   /\ \/ parents = {}
                      \/ \E p \in parents : p.collection_id # collectionID
           THEN answer(400, "invalid_parent")
           ELSE creates' =
                  [creates EXCEPT
                     ![k] = [pc |-> "insert", collectionID |-> collectionID,
                             createReq |-> createReq, code |-> 0,
                             error |-> "",
                             before |-> Siblings(items, collectionID,
                                                 parentID),
                             sortOrder |->
                               sortOrderFor(maxSortOrder(items, collectionID,
                                                         parentID)),
                             row |-> Nil]]
    /\ UNCHANGED <<collections, items, seq, upload, tree>>

\* the INSERT of CreateItem of call k, and its answer
CreateItemInsert(k, dbOk) ==
    /\ creates[k].pc = "insert"
    /\ LET c   == creates[k]
           row == [id |-> seq.items + 1, collection_id |-> c.collectionID,
                   parent_id |-> parentColumn(c.createReq.ParentID),
                   name |-> c.createReq.Name,
                   item_type |-> c.createReq.ItemType,
                   sort_order |-> c.sortOrder,
                   method |-> IF c.createReq.ItemType = "request"
                              THEN NotNull(c.createReq.Method) ELSE Null,
                   url |-> IF c.createReq.ItemType = "request"
                           THEN NotNull(<<>>) ELSE Null]
       IN  IF dbOk
           THEN /\ items' = items \cup {row}
                /\ seq' = [seq EXCEPT !.items = @ + 1]
                /\ creates' = [creates EXCEPT ![k].pc = "done",
                                              ![k].code = 201,
                                              ![k].row = Ptr(row)]
           ELSE /\ creates' = [creates EXCEPT ![k].pc = "done",
                                              ![k].code = 500,
                                              ![k].error = "database_error"]
                /\ UNCHANGED <<items, seq>>
    /\ UNCHANGED <<collections, upload, tree>>

\* the bodies of the CreateItem calls
CreateItemRequests ==
    { [Name |-> "New", ItemType |-> t, ParentID |-> p, Method |-> m] :
         t \in {"folder", "request"}, p \in {Nil, Ptr(1)}, m \in {GET} }
    \cup
    { [Name |-> "Bad", ItemType |-> "request", ParentID |-> Nil,
       Method |-> m] : m \in {<<>>, <<"g","e","t">>} }
    \cup
    { [Name |-> "Bad", ItemType |-> "other", ParentID |-> Nil,
       Method |-> GET],
      [Name |-> "Bad", ItemType |-> "folder", ParentID |-> Ptr(9),
       Method |-> <<>>] }

\* a stored folder or request
StoredItem(id, collectionID, parentID, itemType, sortOrder) ==
    [id |-> id, collection_id |-> collectionID, parent_id |-> parentID,
     name |-> "Old", item_type |-> itemType, sort_order |-> sortOrder,
     method |-> IF itemType = "request" THEN NotNull(GET) ELSE Null,
     url |-> IF itemType = "request" THEN NotNull(<<>>) ELSE Null]

\* the items stored for collection 1 before the CreateItem calls
StoredBefore ==
    { {},
      { StoredItem(1, 1, 0, "folder", 0) },
      { StoredItem(1, 1, 0, "folder", 0), StoredItem(2, 1, 1, "request", 0),
        StoredItem(3, 1, 0, "request", 1) } }

(***************************************************************************)
(* internal/handlers/environment.go: BatchUpdateEnvironmentVariables       *)
(***************************************************************************)
\* the largest number of batch updates in progress together
MaxBatches == 2

\* the loop "currentVars[key] = value" over req.Variables
mergeVariables(currentVars, reqVariables) ==
    [key \in DOMAIN currentVars \cup DOMAIN reqVariables |->
        IF key \in DOMAIN reqVariables THEN reqVariables[key]
        ELSE currentVars[key]]

NoBatch == [pc |-> "idle"]

\* a batch update that has answered
Batched(id, req, code, error) ==
    [pc |-> "done", id |-> id, req |-> req, code |-> code, error |-> error,
     currentVars |-> <<>>]

\* BatchUpdateEnvironmentVariables of call k up to the merge: the binding of
\* the body, the SELECT of the stored variables, and the merge into them
BatchUpdateEnvironmentVariables(k, id, req, dbOk) ==
    /\ batches[k] = NoBatch
    /\ batches' =
         [batches EXCEPT
            ![k] = IF req.nil THEN Batched(id, req, 400, "validation_error")
                   ELSE IF id \notin DOMAIN environments
                   THEN Batched(id, req, 404, "not_found")
                   ELSE IF ~dbOk THEN Batched(id, req, 500, "database_error")
                   ELSE [pc |-> "update", id |-> id, req |-> req,
                         code |-> 0, error |-> "",
                         currentVars |->
                           mergeVariables(environments[id].variables,
                                          req.val)]]
    /\ UNCHANGED environments

\* the UPDATE of BatchUpdateEnvironmentVariables of call k, and its answer
BatchUpdateWrite(k, dbOk) ==
    /\ batches[k].pc = "update"
    /\ IF dbOk
       THEN /\ environments' =
                 [environments EXCEPT
                    ![batches[k].id].variables = batches[k].currentVars]
            /\ batches' = [batches EXCEPT ![k].pc = "done", ![k].code = 200]
       ELSE /\ batches' = [batches EXCEPT ![k].pc = "done", ![k].code = 500,
                                          ![k].error = "database_error"]
            /\ UNCHANGED environments

\* the bodies of the batch updates: nil when "variables" is missing
BatchRequests ==
    { Nil,
      Ptr([key \in {"a"} |-> "1"]),
      Ptr([key \in {"b"} |-> "2"]),
      Ptr([key \in {"a", "b"} |-> "3"]) }

\* the environments stored before the batch updates; created keeps the
\* variables an environment had then
EnvironmentsBefore ==
    { [id \in {1} |-> [variables |-> v, created |-> v]] :
         v \in { [key \in {"base"} |-> "0"],
                 [key \in {"a", "base"} |-> "0"] } }

(***************************************************************************)
(* Specification of the routes and the rate limiter                        *)
(***************************************************************************)
RateIdle ==
    /\ burst = 0
    /\ buckets = [a \in Addrs |-> NoBucket]
    /\ now = 0
    /\ mu = 0
    /\ calls = [c \in CallIds |-> NewCall]
    /\ admitLog = <<>>

InitRate ==
    /\ DeadlineIdle
    /\ StoreIdle
    /\ EnvIdle
    /\ ValidatorIdle
    /\ ExecIdle
    /\ EngineIdle
    /\ burst \in 1..MaxBurst
    /\ buckets = [a \in Addrs |-> NoBucket]
    /\ now = 0
    /\ mu = 0
    /\ calls = [c \in CallIds |-> NewCall]
    /\ admitLog = <<>>

NextRate ==
    \/ \E c \in CallIds, a \in Addrs, ep \in RequestedRoutes :
          \* calls arrive in the order of their ids
          /\ \A d \in 1..(c - 1) : calls[d].st # "new"
          /\ Arrive(c, a, ep) /\ UNCHANGED <<valVars, execVars, engVars, dlVars, storeVars, envVars>>
    \/ \E c \in CallIds : AcquireLock(c) /\ UNCHANGED <<valVars, execVars, engVars, dlVars, storeVars, envVars>>
    \/ \E c \in CallIds : ReadBucket(c) /\ UNCHANGED <<valVars, execVars, engVars, dlVars, storeVars, envVars>>
    \/ \E c \in CallIds : WriteBucket(c) /\ UNCHANGED <<valVars, execVars, engVars, dlVars, storeVars, envVars>>
    \/ \E c \in CallIds : ReleaseLock(c) /\ UNCHANGED <<valVars, execVars, engVars, dlVars, storeVars, envVars>>
    \/ Tick /\ UNCHANGED <<valVars, execVars, engVars, dlVars, storeVars, envVars>>

SpecRate == InitRate /\ [][NextRate]_vars

(***************************************************************************)
(* Specification of the descriptor, the outbound request and the result    *)
(***************************************************************************)
InitEngine ==
    /\ DeadlineIdle
    /\ StoreIdle
    /\ EnvIdle
    /\ ValidatorIdle
    /\ ExecIdle
    /\ RateIdle
    /\ \/ \E idOk \in BOOLEAN, row \in EngineRows, payload \in EnginePayloads,
             cap \in 0..MaxResponseCap :
             eIn = [side |-> "public", idOk |-> idOk, row |-> row,
                    payload |-> payload, cap |-> cap]
       \/ \E payload \in AgentPayloads :
             eIn = [side |-> "agent", payload |-> payload,
                    cap |-> AgentMaxResponseSize]
    /\ ePc = "idle"
    /\ desc = NoDesc
    /\ outReq = NoRequest
    /\ eHeader = <<>>
    /\ eVia = <<>>
    /\ eResp = NoResponse
    /\ eChecked = <<>>
    /\ ePhases = <<>>
    /\ result = NoResult

NextEngine ==
    \/ \E dns \in ExecDnsAnswers :
          ExecuteRequestDescriptor(dns)
          /\ UNCHANGED <<valVars, execVars, rateVars, dlVars, storeVars, envVars>>
    \/ \E r \in TargetResponses :
          ReadResponse(r) /\ UNCHANGED <<valVars, execVars, rateVars, dlVars, storeVars, envVars>>
    \/ \E cause \in DoErrors :
          DoFails(cause) /\ UNCHANGED <<valVars, execVars, rateVars, dlVars, storeVars, envVars>>
    \/ executeHandler /\ UNCHANGED <<valVars, execVars, rateVars, dlVars, storeVars, envVars>>
    \/ \E loc \in AgentRedirectLocations :
          agentCheckRedirect(loc) /\ UNCHANGED <<valVars, execVars, rateVars, dlVars, storeVars, envVars>>
    \/ \E r \in TargetResponses :
          agentReadResponse(r) /\ UNCHANGED <<valVars, execVars, rateVars, dlVars, storeVars, envVars>>
    \/ \E cause \in DoErrors :
          agentDoFails(cause) /\ UNCHANGED <<valVars, execVars, rateVars, dlVars, storeVars, envVars>>

SpecEngine == InitEngine /\ [][NextEngine]_vars

(***************************************************************************)
(* Specification of the execute call and its deadline: the handler, the    *)
(* timer and the clock take every step they can; the resolver and the      *)
(* target answer or not, as they please                                    *)
(***************************************************************************)
InitDeadline ==
    /\ ValidatorIdle
    /\ ExecIdle
    /\ RateIdle
    /\ EngineIdle
    /\ StoreIdle
    /\ EnvIdle
    /\ tCfg \in [RequestTimeout : 1..MaxTimeout, MaxRedirects : 1..2]
    /\ tPc = "idle"
    /\ tClock = 0
    /\ tDeadline = 0
    /\ tVia = 0
    /\ tResult = ""

NextDeadline ==
    \/ ExecuteRequestLookup
       /\ UNCHANGED <<valVars, execVars, rateVars, engVars, storeVars, envVars>>
    \/ \E allowed \in BOOLEAN :
          LookupReturns(allowed)
          /\ UNCHANGED <<valVars, execVars, rateVars, engVars, storeVars, envVars>>
    \/ \E kind \in {"response", "redirect", "error"} :
          TargetAnswers(kind)
          /\ UNCHANGED <<valVars, execVars, rateVars, engVars, storeVars, envVars>>
    \/ \E ok \in BOOLEAN :
          BodyRead(ok)
          /\ UNCHANGED <<valVars, execVars, rateVars, engVars, storeVars, envVars>>
    \/ TimerFires
       /\ UNCHANGED <<valVars, execVars, rateVars, engVars, storeVars, envVars>>
    \/ ClockTick
       /\ UNCHANGED <<valVars, execVars, rateVars, engVars, storeVars, envVars>>

SpecDeadline ==
    /\ InitDeadline
    /\ [][NextDeadline]_vars
    /\ WF_vars(ExecuteRequestLookup
               /\ UNCHANGED <<valVars, execVars, rateVars, engVars,
                                 storeVars, envVars>>)
    /\ WF_vars(TimerFires
               /\ UNCHANGED <<valVars, execVars, rateVars, engVars,
                                 storeVars, envVars>>)
    /\ WF_vars(ClockTick
               /\ UNCHANGED <<valVars, execVars, rateVars, engVars,
                                 storeVars, envVars>>)

(***************************************************************************)
(* Specification of the upload of a collection and the reading of trees    *)
(***************************************************************************)
InitStore ==
    /\ ValidatorIdle
    /\ ExecIdle
    /\ RateIdle
    /\ EngineIdle
    /\ DeadlineIdle
    /\ EnvIdle
    /\ collections = {}
    /\ items = {}
    /\ seq = [collections |-> 0, items |-> 0]
    /\ upload = NoUpload
    /\ tree = NoTree
    /\ creates = <<>>

NextStore ==
    \/ \E body \in UploadBodies, dbOk \in BOOLEAN :
          UploadCollection(body, dbOk)
          /\ UNCHANGED <<valVars, execVars, rateVars, engVars, dlVars, envVars>>
    \/ \E dbOk \in BOOLEAN :
          importItems(dbOk)
          /\ UNCHANGED <<valVars, execVars, rateVars, engVars, dlVars, envVars>>
    \/ \E dbOk \in BOOLEAN :
          Commit(dbOk)
          /\ UNCHANGED <<valVars, execVars, rateVars, engVars, dlVars, envVars>>
    \/ \E collectionID \in 1..2 :
          GetCollectionTree(collectionID)
          /\ UNCHANGED <<valVars, execVars, rateVars, engVars, dlVars, envVars>>

SpecStore == InitStore /\ [][NextStore]_vars

(***************************************************************************)
(* Specification of concurrent CreateItem calls                            *)
(***************************************************************************)
InitCreate ==
    /\ ValidatorIdle
    /\ ExecIdle
    /\ RateIdle
    /\ EngineIdle
    /\ DeadlineIdle
    /\ EnvIdle
    /\ collections = {1}
    /\ items \in StoredBefore
    /\ seq = [collections |-> 1, items |-> Cardinality(items)]
    /\ upload = [pc |-> "off"]
    /\ tree = <<>>
    /\ creates = [k \in 1..MaxCreates |-> NoCreate]

NextCreate ==
    \/ \E k \in 1..MaxCreates, collectionID \in 1..2,
          createReq \in CreateItemRequests, dbOk \in BOOLEAN :
          CreateItem(k, collectionID, createReq, dbOk)
          /\ UNCHANGED <<valVars, execVars, rateVars, engVars, dlVars, envVars>>
    \/ \E k \in 1..MaxCreates, dbOk \in BOOLEAN :
          CreateItemInsert(k, dbOk)
          /\ UNCHANGED <<valVars, execVars, rateVars, engVars, dlVars, envVars>>

SpecCreate == InitCreate /\ [][NextCreate]_vars

(***************************************************************************)
(* Specification of concurrent batch updates of environment variables      *)
(***************************************************************************)
InitEnv ==
    /\ ValidatorIdle
    /\ ExecIdle
    /\ RateIdle
    /\ EngineIdle
    /\ DeadlineIdle
    /\ StoreIdle
    /\ environments \in EnvironmentsBefore
    /\ batches = [k \in 1..MaxBatches |-> NoBatch]

NextEnv ==
    \/ \E k \in 1..MaxBatches, id \in 1..2, req \in BatchRequests,
          dbOk \in BOOLEAN :
          BatchUpdateEnvironmentVariables(k, id, req, dbOk)
          /\ UNCHANGED <<valVars, execVars, rateVars, engVars, dlVars,
                         storeVars>>
    \/ \E k \in 1..MaxBatches, dbOk \in BOOLEAN :
          BatchUpdateWrite(k, dbOk)
          /\ UNCHANGED <<valVars, execVars, rateVars, engVars, dlVars,
                         storeVars>>

SpecEnv == InitEnv /\ [][NextEnv]_vars

(***************************************************************************)
(* Specification of the public execute call                                *)
(***************************************************************************)
Init ==
    /\ DeadlineIdle
    /\ StoreIdle
    /\ EnvIdle
    /\ ValidatorIdle
    /\ RateIdle
    /\ EngineIdle
    /\ cfg \in [AllowLocalhost : BOOLEAN, AllowPrivateIPs : BOOLEAN,
                MaxRedirects : 0..MaxRedirectsBound]
    /\ pc = "idle"
    /\ via = <<>>
    /\ location = <<>>
    /\ log = <<>>
    /\ resp = NoResp

Next ==
    \/ \E idOk \in BOOLEAN, row \in ItemRows, payload \in ExecPayloads,
          dns \in ExecDnsAnswers :
          /\ ExecuteRequest(idOk, row, payload, dns)
          /\ UNCHANGED <<valVars, rateVars, engVars, dlVars, storeVars, envVars>>
    \/ \E status \in FinalStatuses : TargetResponds(status) /\ UNCHANGED <<valVars, rateVars, engVars, dlVars, storeVars, envVars>>
    \/ TargetFails /\ UNCHANGED <<valVars, rateVars, engVars, dlVars, storeVars, envVars>>
    \/ \E loc \in RedirectLocations :
          TargetRedirects(loc) /\ UNCHANGED <<valVars, rateVars, engVars, dlVars, storeVars, envVars>>
    \/ \E dns \in ExecDnsAnswers : CheckRedirect(dns) /\ UNCHANGED <<valVars, rateVars, engVars, dlVars, storeVars, envVars>>

Spec == Init /\ [][Next]_vars

(***************************************************************************)
(* Specification of the validator as a function of its inputs             *)
(***************************************************************************)
InitValidator ==
    /\ DeadlineIdle
    /\ StoreIdle
    /\ EnvIdle
    /\ vIn \in ValidatorInputs
    /\ vOut = NoVerdict
    /\ ExecIdle
    /\ RateIdle
    /\ EngineIdle

Validate ==
    /\ vOut = NoVerdict
    /\ vOut' = ValidateExecutionURL(vIn.url, vIn.allowLocalhost,
                                    vIn.allowPrivateIPs, vIn.dns)
    /\ UNCHANGED vIn
    /\ UNCHANGED <<execVars, rateVars, engVars, dlVars, storeVars, envVars>>

NextValidator == Validate

SpecValidator == InitValidator /\ [][NextValidator]_vars

(***************************************************************************)
(* Properties                                                              *)
(***************************************************************************)
\* the call of the validator has returned
Validated == vOut # NoVerdict

\* the URL given to the validator parses with scheme http or https
HttpURL(u) == Parse(u).ok /\ ToLower(Parse(u).Scheme) \in {HTTP, HTTPS}

\* what the resolver answers for the host of URL u
Resolution(u, dns) == LookupIP(Hostname(Parse(u).Host), dns)

\* the address ranges of 127.0.0.0/8, 10.0.0.0/8, 172.16.0.0/12,
\* 192.168.0.0/16, 169.254.0.0/16, ::1, fc00::/7 and fe80::/10, written out
\* byte by byte
InListedRanges(ip) ==
    IF Len(ip) = 4
    THEN \/ ip[1] = 127
         \/ ip[1] = 10
         \/ ip[1] = 172 /\ ip[2] \in 16..31
         \/ ip[1] = 192 /\ ip[2] = 168
         \/ ip[1] = 169 /\ ip[2] = 254
    ELSE \/ ip = [i \in 1..16 |-> IF i = 16 THEN 1 ELSE 0]
         \/ ip[1] \in {252, 253}
         \/ ip[1] = 254 /\ ip[2] \in 128..191

ResolvesOnlyInside(u, dns) ==
    LET r == Resolution(u, dns)
    IN  /\ ~r.err
        /\ r.ips # <<>>
        /\ \A i \in DOMAIN r.ips : InListedRanges(r.ips[i])

\* C2: an http/https URL whose host resolves only to addresses inside the
\* listed loopback, private, link-local and unique-local ranges is blocked
\* when allowPrivateIPs is false, whatever allowLocalhost is
C2_PrivateResolutionBlocked ==
    (/\ Validated
     /\ HttpURL(vIn.url)
     /\ ~vIn.allowPrivateIPs
     /\ ResolvesOnlyInside(vIn.url, vIn.dns))
    => vOut.kind # "Allowed"

\* C2 witness: with allowLocalhost set, a name resolving to two addresses of
\* the listed ranges, the metadata address first, is refused as BlockedIP
C2_Witness ==
    /\ Validated
    /\ HttpURL(vIn.url)
    /\ vIn.allowLocalhost /\ ~vIn.allowPrivateIPs
    /\ ResolvesOnlyInside(vIn.url, vIn.dns)
    /\ Len(Resolution(vIn.url, vIn.dns).ips) = 2
    /\ vOut.kind = "BlockedIP"
    /\ vOut.ip = <<169, 254, 169, 254>>

\* the host of URL u, as written, is one of the localhost aliases
HostIsLocalhostAlias(u) ==
    LET written == Parse(u).Host
        h == ToLower(Hostname(written))
    IN  \/ h = <<"l","o","c","a","l","h","o","s","t">>
        \/ h = <<"1","2","7",".","0",".","0",".","1">>
        \/ h = <<":",":","1">>
        \/ HasPrefix(h, <<"1","2","7",".">>)
        \/ h = <<"0",".","0",".","0",".","0">>
        \/ HasPrefix(written, <<"[",":",":","]">>)

\* C3: an http/https URL whose host is a localhost alias (localhost,
\* 127.0.0.1, ::1, 127.*, 0.0.0.0, [::]) is blocked when allowLocalhost is
\* false, whatever allowPrivateIPs is
C3_LocalhostAliasBlocked ==
    (/\ Validated
     /\ HttpURL(vIn.url)
     /\ ~vIn.allowLocalhost
     /\ HostIsLocalhostAlias(vIn.url))
    => vOut.kind # "Allowed"

\* C4: a URL whose scheme is not http or https is blocked under all four
\* flag combinations, after the parse and the scheme check only: no
\* hostname check and no resolution has taken place
C4_SchemeBlockedFirst ==
    (/\ Validated
     /\ Parse(vIn.url).ok
     /\ ToLower(Parse(vIn.url).Scheme) \notin {HTTP, HTTPS})
    => /\ vOut.kind = "BlockedScheme"
       /\ vOut.steps = <<"parse", "scheme">>

\* C4 witness: an ftp URL to a resolvable public name, both flags
\* permissive, is refused for its scheme
C4_Witness ==
    /\ Validated
    /\ Parse(vIn.url).Scheme = <<"f","t","p">>
    /\ vIn.allowLocalhost /\ vIn.allowPrivateIPs
    /\ ~Resolution(vIn.url, vIn.dns).err
    /\ vOut.kind = "BlockedScheme"

\* 127.0.0.0/8 and ::1, written out byte by byte
LoopbackAddress(ip) ==
    \/ Len(ip) = 4 /\ ip[1] = 127
    \/ ip = [i \in 1..16 |-> IF i = 16 THEN 1 ELSE 0]

\* the resolver's answer for URL u names a loopback address
ResolvesToLoopback(u, dns) ==
    LET r == Resolution(u, dns)
    IN  ~r.err /\ \E k \in DOMAIN r.ips : LoopbackAddress(r.ips[k])

\* C27: with allowLocalhost set and allowPrivateIPs not, an http/https URL
\* whose host is localhost, 127.0.0.1 or ::1 and resolves to a loopback
\* address passes the hostname check and is blocked by the check of the
\* resolved addresses; a URL resolving to a loopback address is Allowed
\* only with allowPrivateIPs set
C27_LoopbackNeedsAllowPrivateIPs ==
    /\ (/\ Validated
        /\ HttpURL(vIn.url)
        /\ vIn.allowLocalhost /\ ~vIn.allowPrivateIPs
        /\ ToLower(Hostname(Parse(vIn.url).Host))
              \in { <<"l","o","c","a","l","h","o","s","t">>,
                    <<"1","2","7",".","0",".","0",".","1">>,
                    <<":",":","1">> }
        /\ ResolvesToLoopback(vIn.url, vIn.dns))
       => /\ vOut.kind = "BlockedIP"
          /\ vOut.ip \in Range(Resolution(vIn.url, vIn.dns).ips)
    /\ (/\ Validated
        /\ vOut.kind = "Allowed"
        /\ ResolvesToLoopback(vIn.url, vIn.dns))
       => vIn.allowPrivateIPs

\* C27 witness: http://localhost/ resolving to 127.0.0.1 is blocked on the
\* resolved address with allowLocalhost set
C27_Witness ==
    /\ Validated
    /\ vIn.allowLocalhost /\ ~vIn.allowPrivateIPs
    /\ Hostname(Parse(vIn.url).Host) = <<"l","o","c","a","l","h","o","s","t">>
    /\ vIn.dns.ips = <<V4(127, 0, 0, 1)>>
    /\ vOut.kind = "BlockedIP"

(***************************************************************************)
(* Properties of the public execute call                                   *)
(***************************************************************************)
\* the positions of the log holding outbound requests
Sends == { i \in DOMAIN log : log[i].type = "send" }

\* the positions of the log holding verdicts on redirect targets
RedirectVerdicts ==
    { i \in DOMAIN log : log[i].type = "validate" /\ i > 1 }

\* what the validator answers for a logged validation under the flags of
\* the configuration
VerdictUnderPolicy(e) ==
    ValidateExecutionURL(e.url, cfg.AllowLocalhost, cfg.AllowPrivateIPs,
                         e.dns).kind

\* C1: every outbound request, hop 0 or a followed redirect, comes right
\* after an Allowed verdict of the validator on the very URL it is sent to
C1_VerdictBeforeEveryHop ==
    /\ \A i \in Sends :
          /\ i > 1
          /\ log[i - 1].type = "validate"
          /\ log[i - 1].kind = "Allowed"
          /\ log[i - 1].url = log[i].url
    /\ Cardinality(Sends) = Len(via)
    /\ \A i \in Sends : log[i].url = via[Cardinality({j \in Sends : j <= i})]

\* C1 witness: hop 0 and two redirect hops were sent
C1_Witness ==
    /\ Len(via) = 3
    /\ Cardinality(Sends) = 3
    /\ pc = "sending"

\* C5: a validation of an http/https URL whose host the resolver fails to
\* resolve is not Allowed, under every flag combination, and nothing is
\* sent after it: the call ends there with an error answer
C5_ResolutionFailureClosed ==
    \A i \in DOMAIN log :
        (/\ log[i].type = "validate"
         /\ HttpURL(log[i].url)
         /\ Resolution(log[i].url, log[i].dns).err)
        => /\ log[i].kind # "Allowed"
           /\ i = Len(log)
           /\ pc = "done"
           /\ resp.code = (IF i = 1 THEN 403 ELSE 502)

\* C5 witness: with both allow flags set, the resolution of a redirect
\* target fails after hop 0 was sent, and the call ends with 502
C5_Witness ==
    /\ cfg.AllowLocalhost /\ cfg.AllowPrivateIPs
    /\ Len(via) >= 1
    /\ log[Len(log)].type = "validate"
    /\ log[Len(log)].kind = "ResolutionFailed"
    /\ resp.code = 502

\* C6: a redirect target, reached below the redirect limit, that is not
\* Allowed under the flags of the configuration ends the call with the
\* redirect-blocked error; no request is sent to it, the earlier hops
\* having been validated and sent
C6_BlockedRedirectEndsCall ==
    \A i \in RedirectVerdicts :
        VerdictUnderPolicy(log[i]) # "Allowed"
        => /\ i = Len(log)
           /\ pc = "done"
           /\ resp = ErrorResponse(502, "execution_error", "redirect blocked")
           /\ Len(via) = Cardinality({j \in Sends : j < i})
           /\ Len(via) < cfg.MaxRedirects

\* C6 witness: hop 0 and a redirect to a public address were sent, the next
\* redirect, to 127.0.0.1, is refused
C6_Witness ==
    /\ Len(via) = 2
    /\ pc = "done"
    /\ resp.cause = "redirect blocked"
    /\ log[Len(log)].type = "validate"
    /\ log[Len(log)].url =
         HTTP \o SEP \o <<"1","2","7",".","0",".","0",".","1">> \o SLASH
    /\ ~cfg.AllowLocalhost

\* the number of redirect hops followed: the requests sent after hop 0
RedirectsFollowed == Len(via) - 1

\* C7: a call that ends with the redirect-limit error has followed exactly
\* MaxRedirects redirect hops
C7_FollowsExactlyMaxRedirects ==
    (pc = "done" /\ resp.cause = "stopped after redirects")
    => RedirectsFollowed = cfg.MaxRedirects

\* C25: at a redirect with len(via) at or above MaxRedirects the call ends
\* with the redirect-limit error and the validator is not run on the target:
\* the limit entry of the log follows a send, not a verdict, whatever the
\* target is
C25_LimitCheckedFirst ==
    /\ [](\A i \in DOMAIN log :
            log[i].type = "limit"
            => /\ i = Len(log)
               /\ i > 1
               /\ log[i - 1].type = "send"
               /\ pc = "done"
               /\ resp = ErrorResponse(502, "execution_error",
                                       "stopped after redirects"))
    /\ [][(pc = "redirect" /\ Len(via) >= cfg.MaxRedirects)
            => /\ log' = Append(log, LimitEvent(location))
               /\ resp'.cause = "stopped after redirects"]_vars

\* C25 witness: with both flags off, the redirect at the limit points to
\* 127.0.0.1 and the call ends with the limit error
C25_Witness ==
    /\ ~cfg.AllowLocalhost /\ ~cfg.AllowPrivateIPs
    /\ pc = "done"
    /\ Len(via) >= 2
    /\ resp.cause = "stopped after redirects"
    /\ log[Len(log)] =
         LimitEvent(HTTP \o SEP \o <<"1","2","7",".","0",".","0",".","1">>
                         \o SLASH)

\* the address as the connection uses it: an IPv4-mapped IPv6 address is the
\* IPv4 address of its last four bytes
Unmapped(ip) ==
    IF /\ Len(ip) = 16
       /\ \A i \in 1..10 : ip[i] = 0
       /\ ip[11] = 255 /\ ip[12] = 255
    THEN SubSeq(ip, 13, 16) ELSE ip

\* loopback, link-local, RFC1918, 100.64.0.0/10, fc00::/7 (the metadata
\* address fd00:ec2::254 included), fe80::/10 and 169.254.169.254, written
\* out byte by byte
InternalAddress(ip) ==
    LET a == Unmapped(ip)
    IN  IF Len(a) = 4
        THEN \/ a[1] = 127
             \/ a[1] = 10
             \/ a[1] = 172 /\ a[2] \in 16..31
             \/ a[1] = 192 /\ a[2] = 168
             \/ a[1] = 169 /\ a[2] = 254
             \/ a[1] = 100 /\ a[2] \in 64..127
        ELSE \/ a = [i \in 1..16 |-> IF i = 16 THEN 1 ELSE 0]
             \/ a[1] \in {252, 253}
             \/ a[1] = 254 /\ a[2] \in 128..191

\* C26: with both allow flags off, every outbound request, hop 0 or a
\* redirect hop, stored URL or override, goes to the very URL of the verdict
\* just before it, and none of the addresses that host resolved to at the
\* validation (the addresses the connection uses, the resolver being
\* stable) is an internal address
C26_NoRequestToInternalAddress ==
    (~cfg.AllowLocalhost /\ ~cfg.AllowPrivateIPs)
    => \A i \in Sends :
          /\ i > 1
          /\ log[i - 1].type = "validate"
          /\ log[i - 1].url = log[i].url
          /\ LET r == Resolution(log[i].url, log[i - 1].dns)
             IN  /\ ~r.err
                 /\ \A k \in DOMAIN r.ips : ~InternalAddress(r.ips[k])

\* C26 witness: with both flags off hop 0 and a redirect hop were sent, and
\* the next redirect, to a host with a public and a 100.64.0.0/10 address,
\* was refused
C26_Witness ==
    /\ ~cfg.AllowLocalhost /\ ~cfg.AllowPrivateIPs
    /\ Len(via) = 2
    /\ pc = "done"
    /\ log[Len(log)].type = "validate"
    /\ log[Len(log)].kind # "Allowed"
    /\ log[Len(log)].dns.ips = <<V4(93, 184, 216, 34), V4(100, 64, 0, 1)>>

\* the validator refused the initial URL of the call
InitialRefused ==
    log # <<>> /\ log[1].type = "validate" /\ log[1].kind # "Allowed"

\* the errors with which executeHTTPRequest fails once the request is out
ExecutionFailures ==
    { "request failed", "stopped after redirects", "redirect blocked",
      "failed to parse Location header" }

\* C11: a call whose initial URL the validator refuses is answered 403
\* ssrf_protection; a call whose outbound execution fails (request failed,
\* redirect limit, blocked redirect) is answered 502 execution_error; the
\* two kinds exclude each other and neither is answered 200
C11_RefusalAndFailureKinds ==
    pc = "done" =>
        /\ InitialRefused
             => (resp.code = 403 /\ resp.error = "ssrf_protection")
        /\ resp.error = "ssrf_protection" => (InitialRefused /\ via = <<>>)
        /\ (via # <<>> /\ resp.status = 0)
             => /\ resp.cause \in ExecutionFailures
                /\ resp.code = 502 /\ resp.error = "execution_error"
        /\ resp.error = "execution_error"
             => (via # <<>> /\ ~InitialRefused /\ resp.code = 502)
        /\ resp.code = 200 => (resp.error = "" /\ resp.status # 0)

\* C11 witness: hop 0 was sent and a redirect was then refused by the
\* validator: the call is answered 502 execution_error, not 403
C11_Witness ==
    /\ pc = "done"
    /\ Len(via) = 1
    /\ log[Len(log)].type = "validate" /\ log[Len(log)].kind = "BlockedIP"
    /\ resp.code = 502 /\ resp.error = "execution_error"

\* C12: a call whose effective URL cannot be parsed as a URL is answered
\* 400, as a user input error
C12_MalformedURLIsUserError ==
    (pc = "done" /\ log # <<>> /\ ~Parse(log[1].url).ok) => resp.code = 400

\* the hosts that name the local machine
LocalHostnames ==
    { <<"l","o","c","a","l","h","o","s","t">>,
      <<"1","2","7",".","0",".","0",".","1">>, <<":",":","1">> }

\* C17: under the configuration that Load builds from an environment with
\* neither flag set, a call whose URL's host is localhost, 127.0.0.1 or ::1
\* is answered 403 ssrf_protection and sends nothing
C17_DefaultConfigBlocksLocalhost ==
    (/\ cfg.AllowLocalhost = Load(NoEnv).AllowLocalhost
     /\ cfg.AllowPrivateIPs = Load(NoEnv).AllowPrivateIPs
     /\ log # <<>>
     /\ Parse(log[1].url).ok
     /\ Hostname(Parse(log[1].url).Host) \in LocalHostnames)
    => /\ via = <<>>
       /\ pc = "done"
       /\ resp.code = 403 /\ resp.error = "ssrf_protection"

(***************************************************************************)
(* Properties of the routes and the rate limiter                           *)
(***************************************************************************)
\* the rate limiter's decisions on the calls of address a, in order
DecisionsOf(a) == SelectSeq(admitLog, LAMBDA e : e.addr = a)

\* the number of admitted calls among positions i..j of the decisions L
AdmittedIn(L, i, j) == Cardinality({k \in i..j : L[k].ok})

\* C8: from a full bucket, calls of one address made with no time elapsing
\* are admitted up to the burst ceiling b and the next one is rejected; a
\* call made a full refill interval after a rejected one is admitted
C8_BurstThenRefill ==
    \A a \in Addrs :
        LET L == DecisionsOf(a) IN
        /\ \A k \in DOMAIN L :
              (\A i \in 1..k : L[i].t = L[1].t) => (L[k].ok <=> k <= burst)
        /\ \A i \in 1..(Len(L) - 1) :
              (~L[i].ok /\ L[i + 1].t >= L[i].t + Token) => L[i + 1].ok

\* C8 witness: with b = 1, the first call of an address is admitted, the
\* second, at the same time, is rejected, and the third, one refill
\* interval later, is admitted
C8_Witness ==
    \E a \in Addrs :
        LET L == DecisionsOf(a) IN
        /\ burst = 1
        /\ Len(L) = 3
        /\ L[1].ok /\ ~L[2].ok /\ L[3].ok
        /\ L[2].t = L[1].t
        /\ L[3].t = L[2].t + Token

\* C9: a call rejected by the rate limiter is answered 429 and its handler
\* never runs; a call for a route other than execute goes to its handler
\* whatever the buckets hold
C9_RejectedNeverHandled ==
    /\ \A ep \in DOMAIN Routes :
          (\E i \in DOMAIN Routes[ep] : Routes[ep][i] = "RateLimitMiddleware")
            <=> ep = EXECUTE
    /\ \A c \in CallIds :
          /\ calls[c].st = "aborted" <=> calls[c].code = 429
          /\ calls[c].st = "rejected" => calls[c].code = 0
          /\ (calls[c].st # "new" /\ calls[c].ep # EXECUTE)
             => (calls[c].st = "handled" /\ calls[c].code = 200)
    /\ Cardinality({c \in CallIds : calls[c].st = "handled"
                                    /\ calls[c].ep = EXECUTE})
         <= AdmittedIn(admitLog, 1, Len(admitLog))

\* C9 witness: an execute call of an address was answered 429, and a later
\* health call of the same address was served while the bucket of that
\* address still holds less than one token
C9_Witness ==
    \E c, d \in CallIds :
        /\ c < d
        /\ calls[c].st = "aborted" /\ calls[c].ep = EXECUTE
        /\ calls[d].st = "handled" /\ calls[d].ep = "GET /health"
        /\ calls[d].addr = calls[c].addr
        /\ Refilled(buckets[calls[c].addr], now, burst) < Token

RECURSIVE replay(_, _, _, _)
\* the decisions a single bucket makes on the calls at the times of L, from
\* position i on, holding level at time last
replay(L, i, level, last) ==
    IF i > Len(L) THEN <<>>
    ELSE LET have == IF level + (L[i].t - last) > burst * Token
                     THEN burst * Token ELSE level + (L[i].t - last)
         IN  <<have >= Token>>
             \o replay(L, i + 1,
                       IF have >= Token THEN have - Token ELSE have, L[i].t)

\* C10: for each address, the calls admitted between any two of its
\* decisions number at most the burst ceiling plus the tokens refilled in
\* between, and the decisions are those of a bucket that only this address
\* draws from, whatever the interleaving with other calls
C10_TokensConsumedOnce ==
    \A a \in Addrs :
        LET L == DecisionsOf(a) IN
        /\ \A i, j \in DOMAIN L :
              i <= j =>
                Token * AdmittedIn(L, i, j)
                  <= burst * Token + (L[j].t - L[i].t)
        /\ L # <<>> =>
              replay(L, 1, burst * Token, L[1].t) = [k \in DOMAIN L |-> L[k].ok]

\* C10 witness: with b = 1 two calls of one address are inside the rate
\* limiter at once, one waiting for the lock while the other has taken the
\* only token, a call of the other address having been admitted as well
C10_Witness ==
    \E c, d \in CallIds :
        /\ c # d
        /\ burst = 1
        /\ calls[c].addr = "a1" /\ calls[d].addr = "a1"
        /\ calls[c].st = "waiting" /\ calls[d].st = "admitted"
        /\ buckets["a1"].level = 0
        /\ \E k \in DOMAIN admitLog : admitLog[k].addr = "a2" /\ admitLog[k].ok

(***************************************************************************)
(* Properties of the descriptor, the outbound request and the result       *)
(***************************************************************************)
\* the descriptor was handed to executeHTTPRequest
Handed == desc # NoDesc

\* the outbound request was built and sent
Sent == eVia # <<>>

\* a response that the client does not follow was received from the target
Received == eResp # NoResponse

\* C13: every descriptor handed to executeHTTPRequest, in the public
\* service and in the agent, has a method that is exactly one of GET, POST,
\* PUT, PATCH, DELETE, and so has every outbound request built
C13_MethodIsOneOfFive ==
    /\ Handed => desc.method \in allowedMethods
    /\ Sent => outReq.Method \in allowedMethods

\* C14: in the public service and in the agent, an execution that could
\* not complete yields an error and no status, and a response received
\* from the target, 404 and 500 included, yields its status and no error
C14_ErrorOrStatus ==
    ePc = "done" =>
        /\ Received => /\ result.error = ""
                       /\ result.Status = eResp.status
                       /\ result.code = 200
        /\ (Handed /\ ~Received) => /\ result.error # ""
                                    /\ result.Status = 0
                                    /\ result.Headers = <<>>
                                    /\ result.Body = <<>>

\* C14 witness: the agent's target answered 500, and the result carries
\* status 500 and no error
C14_Witness ==
    /\ eIn.side = "agent"
    /\ ePc = "done"
    /\ eResp.status = 500
    /\ result.Status = 500 /\ result.error = ""

\* the values that the result carries under header name k
ResultValues(k) ==
    IF k \notin DOMAIN result.Headers THEN <<>>
    ELSE IF eIn.side = "public" THEN <<result.Headers[k]>>
    ELSE result.Headers[k]

\* C15: the result of the public service and the result of the agent hold,
\* under every header name of the target's response, all the values of
\* that header, in order
C15_AllHeaderValues ==
    (ePc = "done" /\ Received)
    => \A k \in DOMAIN eResp.header : ResultValues(k) = eResp.header[k]

\* the errors of the agent that are not about the target's address
AgentErrors ==
    { "", "Invalid request", "failed to create request", "request failed",
      "failed to read response", "stopped after redirects" }

\* C16: the agent sends the request of every bound payload whose request
\* can be built, whatever address its URL names, follows redirects the
\* same way, and fails only for a reason that is not the target's address;
\* the redirect error comes at the hop limit only
C16_AgentNeverRefusesTarget ==
    eIn.side = "agent" =>
        /\ (/\ ePc # "idle"
            /\ eIn.payload.json
            /\ eIn.payload.Method # <<>> /\ eIn.payload.URL # <<>>
            /\ Parse(eIn.payload.URL).ok)
           => (Sent /\ eVia[1] = eIn.payload.URL)
        /\ result.error \in AgentErrors
        /\ result.code # 403
        /\ result.error = "stopped after redirects"
             => Len(eVia) = MaxRedirects

\* C16 witness: the agent sent a request to 127.0.0.1:8080 and followed two
\* redirects, every one of the three URLs being refused by the validator
\* of the public service, and returned the target's response
C16_Witness ==
    /\ eIn.side = "agent"
    /\ ePc = "done"
    /\ Len(eVia) = 3
    /\ eVia[1] = LOCAL8080
    /\ \A i \in DOMAIN eVia :
          ValidateExecutionURL(eVia[i], FALSE, FALSE, DnsFailure).kind
            # "Allowed"
    /\ Received /\ result.Status = 200

C19_BodyIsCappedPrefix ==
    (ePc = "done" /\ Received)
    => LET L == Len(eResp.body)
           C == eIn.cap
       IN  /\ Len(result.Body) = (IF L < C THEN L ELSE C)
           /\ \A i \in DOMAIN result.Body : result.Body[i] = eResp.body[i]
           /\ L > C => /\ result.error = ""
                       /\ result.Status = eResp.status
                       /\ result.code = 200

\* C19 witness: the target's body is longer than the cap, and the result
\* holds as many bytes as the cap
C19_Witness ==
    /\ ePc = "done"
    /\ Received
    /\ eIn.cap > 0
    /\ Len(eResp.body) > eIn.cap
    /\ Len(result.Body) = eIn.cap
    /\ result.error = ""

\* the execute payload supplies member m
Supplied(m) ==
    /\ eIn.payload.present
    /\ eIn.payload.json
    /\ eIn.payload[m].kind # "missing"

\* the headers that the payload's headers object supplies
SuppliedHeaders ==
    LET f == eIn.payload.headers.val
    IN  [k \in {n \in DOMAIN f : f[n].kind = "string"} |-> f[k].val]

\* the headers of the stored item, by name
StoredHeaderSet ==
    LET hs == eIn.row.Headers.String
    IN  [k \in {hs[i].Key : i \in DOMAIN hs} |->
           hs[CHOOSE i \in DOMAIN hs : hs[i].Key = k].Value]

\* C20: each of url, headers and body of the descriptor assembled by
\* ExecuteRequest is the value that the payload supplies, when it supplies
\* one, and the stored item's value otherwise
C20_OverrideReplacesField ==
    (eIn.side = "public" /\ Handed) =>
        /\ desc.url = (IF Supplied("url") THEN eIn.payload.url.val
                       ELSE eIn.row.URL.String)
        /\ desc.body = (IF Supplied("body") THEN eIn.payload.body.val
                        ELSE eIn.row.Body.String)
        /\ desc.headers = (IF Supplied("headers") THEN SuppliedHeaders
                           ELSE StoredHeaderSet)

(***************************************************************************)
(* The phases of an execution                                              *)
(***************************************************************************)
\* the transitions of the state machine; a followed redirect is an event of
\* Sending that leads to the dispatch of the next hop
PhaseEdges ==
    { <<"Building", "Sending">>, <<"Building", "Failed">>,
      <<"Sending", "Redirect">>, <<"Sending", "Receiving">>,
      <<"Sending", "Failed">>,
      <<"Redirect", "Sending">>, <<"Redirect", "Failed">>,
      <<"Receiving", "Complete">>, <<"Receiving", "Failed">> }

LastPhase == IF ePhases = <<>> THEN "" ELSE ePhases[Len(ePhases)]

EffectiveURL ==
    IF Supplied("url") THEN eIn.payload.url.val
    ELSE IF eIn.row.URL.Valid THEN eIn.row.URL.String
    ELSE <<>>

\* the id is not an integer, or the item does not exist, or it is found and
\* is a folder, or the payload is not JSON, or the stored method is NULL, or
\* the effective URL is empty
NotExecutable ==
    /\ eIn.side = "public"
    /\ \/ ~eIn.idOk
       \/ eIn.row.err = "ErrNoRows"
       \/ /\ eIn.row.err = "nil"
          /\ \/ eIn.row.ItemType = "folder"
             \/ eIn.payload.present /\ ~eIn.payload.json
             \/ ~eIn.row.Method.Valid
             \/ EffectiveURL = <<>>

DeadlineExpired == tPc \notin {"off", "idle"} /\ tClock >= tCfg.RequestTimeout

\* C22: once the configured deadline has expired, the call returns a result,
\* whatever it is waiting for: the resolver (in the validator, for the
\* initial URL or a redirect target), the target, or the body
C22_DeadlineEndsCall == DeadlineExpired ~> (tPc = "done")

(***************************************************************************)
(* Properties of the upload of a collection and of its tree                *)
(***************************************************************************)
RECURSIVE countImportable(_)
\* the number of items of a document that are folders with items or
\* requests, at any depth below a folder with items
countImportable(its) ==
    IF its = <<>> THEN 0
    ELSE LET item == Head(its)
         IN  (IF Len(item.Item) > 0 THEN 1 + countImportable(item.Item)
              ELSE IF ~item.Request.nil THEN 1
              ELSE 0)
             + countImportable(Tail(its))

RECURSIVE requestsOf(_)
\* the requests of a document, at any depth
requestsOf(its) ==
    IF its = <<>> THEN {}
    ELSE LET item == Head(its)
         IN  (IF Len(item.Item) > 0 THEN requestsOf(item.Item)
              ELSE IF ~item.Request.nil THEN {item.Request.val}
              ELSE {})
             \cup requestsOf(Tail(its))

\* the document of the body is one of those the upload has to refuse
Refusable(body) ==
    \/ ~body.schema
    \/ Len(body.Item) = 0
    \/ body.jsonLen > MaxRequestSize
    \/ \E r \in requestsOf(body.Item) :
          \/ ToUpper(r.Method) \notin {GET, POST, PUT, PATCH, DELETE}
          \/ /\ extractURL(r.URL) # <<>>
             /\ ~hasTemplate(extractURL(r.URL))
             /\ ToLower(Parse(extractURL(r.URL)).Scheme) \notin {HTTP, HTTPS}
          \/ Len(r.Header) > MaxHeaderCount

\* the rows stored for the collection of the upload
StoredOfUpload == { r \in items : r.collection_id = upload.id }

\* C23: UploadCollection is all-or-nothing. A document that has to be
\* refused (unsupported schema, no items, a method outside the five, a
\* scheme other than http and https, too many headers, JSON longer than the
\* size limit) is answered 400; an upload that does not end with 201 leaves
\* no collection and no item stored; an upload that ends with 201 has its
\* collection and every item it imported stored; and the stored collections
\* and items change only in the step that ends an upload with 201.
C23_UploadAllOrNothing ==
    /\ [](upload.pc = "done" =>
            /\ Refusable(upload.body) => upload.code = 400
            /\ upload.code # 201 =>
                 /\ collections = {}
                 /\ items = {}
            /\ upload.code = 201 =>
                 /\ upload.id \in collections
                 /\ StoredOfUpload = upload.rows
                 /\ Cardinality(StoredOfUpload)
                      = countImportable(upload.body.Item))
    /\ [][(collections' # collections \/ items' # items) =>
             /\ upload.pc = "import"
             /\ upload'.pc = "done"
             /\ upload'.code = 201]_vars

\* an upload has failed on an INSERT after it had inserted other rows
C23_Witness ==
    /\ upload.pc = "done"
    /\ upload.code = 500
    /\ upload.error = "import_error"
    /\ seq.items > 0
    /\ items = {}

RECURSIVE docTree(_)
\* the nesting of folders and requests of a document: an item with an
\* "item" member is a folder, an item with a request is a request, and
\* any other item is neither
docTree(its) ==
    IF its = <<>> THEN <<>>
    ELSE LET item == Head(its)
             rest == docTree(Tail(its))
         IN  IF item.member \/ Len(item.Item) > 0
             THEN <<[Name |-> item.Name, ItemType |-> "folder",
                     Children |-> docTree(item.Item)]>> \o rest
             ELSE IF ~item.Request.nil
             THEN <<[Name |-> item.Name, ItemType |-> "request",
                     Children |-> <<>>]>> \o rest
             ELSE rest

\* the tree read is the tree of the collection an upload has stored
TreeOfUpload ==
    /\ upload.pc = "done"
    /\ upload.code = 201
    /\ tree.code = 200
    /\ tree.id = upload.id

RECURSIVE hasEmptyFolder(_)
\* some folder of the document, at any depth, has no items
hasEmptyFolder(its) ==
    \E i \in DOMAIN its :
       \/ its[i].member /\ Len(its[i].Item) = 0
       \/ hasEmptyFolder(its[i].Item)

\* C24: the tree read after the upload of a valid collection has the
\* nesting of folders and requests of the uploaded document, each item once
\* under its own parent, with siblings in the order of the document.
C24_TreeIsUploadedNesting ==
    TreeOfUpload => tree.Items = docTree(upload.body.Item)

\* the same for the documents in which every folder has an item
TreeIsUploadedNestingNoEmptyFolder ==
    TreeOfUpload /\ ~hasEmptyFolder(upload.body.Item)
       => tree.Items = docTree(upload.body.Item)

\* a tree with a folder inside a folder has been read
NestedTreeRead ==
    /\ TreeOfUpload
    /\ \E i \in DOMAIN tree.Items :
          \E j \in DOMAIN tree.Items[i].Children :
             tree.Items[i].Children[j].Children # <<>>


(***************************************************************************)
(* Properties of concurrent CreateItem calls and batch updates             *)
(***************************************************************************)
\* the CreateItem calls that have stored an item
CreatedCalls == { k \in 1..MaxCreates :
                     creates[k].pc = "done" /\ creates[k].code = 201 }

\* two calls have created siblings
SiblingCalls(j, k) ==
    /\ creates[j].row.val.collection_id = creates[k].row.val.collection_id
    /\ creates[j].row.val.parent_id = creates[k].row.val.parent_id

\* the items created under one parent have pairwise distinct sort_order
CreatedDistinct ==
    \A j \in CreatedCalls, k \in CreatedCalls :
       j # k /\ SiblingCalls(j, k)
          => creates[j].row.val.sort_order # creates[k].row.val.sort_order

\* an item created has a sort_order greater than that of every sibling that
\* was stored when its call read them
CreatedAfterExisting ==
    \A k \in CreatedCalls :
       \A r \in creates[k].before :
          creates[k].row.val.sort_order > r.sort_order

\* C29: after any CreateItem calls, concurrent ones included, that add
\* items under the same parent of one collection, the created siblings have
\* pairwise distinct sort_order values, each greater than the sort_order of
\* every sibling that existed before its call.
C29_CreatedSiblingsDistinctIncreasing ==
    CreatedDistinct /\ CreatedAfterExisting

\* two calls created siblings under a parent that had items
TwoSiblingsCreated ==
    \E j \in CreatedCalls, k \in CreatedCalls :
       /\ j # k
       /\ SiblingCalls(j, k)
       /\ creates[j].before # {}

\* the batch updates of an environment that have answered 200
CompletedBatches(id) ==
    { k \in 1..MaxBatches :
         batches[k].pc = "done" /\ batches[k].code = 200
         /\ batches[k].id = id }

\* no batch update is between its SELECT and its UPDATE
NoBatchInProgress == \A k \in 1..MaxBatches : batches[k].pc # "update"

\* C30: after any set of batch updates on one environment, concurrent ones
\* included, has completed, every key named by any of them is present with
\* a value written by one of those updates, and every key named by none of
\* them keeps its previous value.
C30_BatchUpdatesMerge ==
    NoBatchInProgress =>
       \A id \in DOMAIN environments :
          LET stored == environments[id].variables
              named == UNION { DOMAIN batches[k].req.val :
                                  k \in CompletedBatches(id) }
          IN  /\ \A key \in named :
                    /\ key \in DOMAIN stored
                    /\ \E k \in CompletedBatches(id) :
                          /\ key \in DOMAIN batches[k].req.val
                          /\ stored[key] = batches[k].req.val[key]
              /\ \A key \in DOMAIN environments[id].created \ named :
                    /\ key \in DOMAIN stored
                    /\ stored[key] = environments[id].created[key]

\* two batch updates naming different keys have completed
TwoBatchesCompleted ==
    /\ NoBatchInProgress
    /\ \E j \in CompletedBatches(1), k \in CompletedBatches(1) :
          DOMAIN batches[j].req.val \cap DOMAIN batches[k].req.val = {}

====
